---------------------------- MODULE Spec2Model ----------------------------
(***************************************************************************)
(* Model of the Helix sync coordinator (helix-rust/crates/sync-coordinator) *)
(*                                                                         *)
(*   - vector_clock.rs        : VectorClock and its causal order           *)
(*   - conflict_resolution.rs : resolve_conflict                           *)
(*   - main.rs                : the websocket broker (handle_socket)       *)
(*                                                                         *)
(* and of the decay engine (helix-rust/crates/psychology-decay)            *)
(*                                                                         *)
(*   - main.rs                : calculate_all_decay                        *)
(*   - decay_models.rs        : the forgetting curves                      *)
(*                                                                         *)
(* SpecResolve exercises resolve_conflict on every pair of entities within *)
(* the bounds; SpecClock applies the vector clock operations to every      *)
(* triple of clocks; Spec is the broker with its sessions, the broadcast   *)
(* channel and the per-session outbound tasks; SpecDecay runs decay passes *)
(* over a table of psychology layers.                                      *)
(***************************************************************************)
EXTENDS Integers, Sequences, FiniteSets, TLC

(***************************************************************************)
(* Bounds of the model.                                                    *)
(***************************************************************************)
\* largest counter a vector clock entry takes
MaxCounter == 2
\* last_modified ranges over 0..MaxTime
MaxTime == 2

\* connections the coordinator accepts in one run (each is a new session)
MaxSessions == 2
\* capacity of the broadcast channel (main.rs:70 passes 100; scaled down)
ChannelCapacity == 1

\* rows of the psychology_layers table
MaxLayers == 2
\* timestamps count ticks: an hour has this many
TicksPerHour == 2
\* ticks the wall clock advances in one run
MaxElapsed == 2

\* ticks of the cron schedule in one run of the scheduled decay engine
MaxJobTicks == 2

\* memories given to a detector
MaxMemories == 6

\* memories of a user that carry an embedding
MaxEmbedded == 3

\* invocations of synthesize_patterns in one behaviour
MaxInvocations == 2

\* device identifiers that appear as vector clock keys
Devices == {"A", "B"}

VARIABLES
    \* ---- resolve_conflict (conflict_resolution.rs) ----
    local,            \* the entity the resolving peer holds
    remote,           \* the entity it received
    resolution,       \* Result<ConflictResolution> of resolve_conflict(local, remote)
    peer_resolution,  \* the same pair resolved by the peer that holds `remote` as local
    \* ---- the coordinator (main.rs) ----
    pc,               \* per session: where handle_socket is
    out,              \* per session: where its broadcast task is
    subscribed_at,    \* per session: channel length when broadcast_rx subscribed
    cursor,           \* per session: channel position its broadcast_rx has passed
    device_id,        \* per session: the identifier handle_socket drew
    delivered,        \* per session: the text frames written to its open socket
    channel,          \* every message broadcast_tx.send accepted, in order
    connected_clients, \* AppState::connected_clients (the key set of the map)
    broadcast_rx,     \* per session: whether its broadcast_rx exists (subscribed, not dropped)
    \* ---- the vector clock operations (vector_clock.rs) ----
    vc_self,          \* the clock the operations are applied to (&mut self / &self)
    vc_other,         \* the argument of merge and of happens_before
    vc_third,         \* a third clock, for chains of happens_before
    vc_prev,          \* vc_self before the last operation
    vc_op,            \* the last operation applied to vc_self
    vc_cmp,           \* the results of the happens_before calls
    \* ---- the decay engine (psychology-decay/src/main.rs) ----
    psychology_layers, \* the table: row id -> layer_number, decay_rate, last_updated
    now,              \* Utc::now()
    decay_pc,         \* where calculate_all_decay is
    rows,             \* the rows the pass fetched, in the order fetched
    updated,          \* the local `updated` of the pass
    attempted,        \* the row ids the pass has issued an UPDATE for
    passes,           \* what each returned pass left behind
    \* ---- calculate_retention on its own (decay_models.rs) ----
    ret_layer,        \* the layer_number given to get_model_for_layer
    ret_strength,     \* initial_strength, in thousandths
    ret_duration,     \* time_since_access, in ticks
    ret_value,        \* the retention returned
    \* ---- start-up of the processes (the three main.rs, shared/src/supabase.rs) ----
    env,              \* the environment variables that are set
    process,          \* which binary runs, and in which mode
    main_pc,          \* where its main is
    exit_code,        \* the exit status of the process
    work_done,        \* the units of work the process has begun
    errors_logged,    \* the error! lines written
    ticks,            \* the ticks of the schedule that have fired
    \* ---- the pattern detectors on their own (pattern_detection.rs) ----
    det_memories,     \* the slice of memories given to a detector
    det_patterns,     \* the Vec<Pattern> it returned
    \* ---- synthesize_patterns (pattern_detection.rs) ----
    memories,         \* the memories table
    memory_synthesis, \* the memory_synthesis table, in insertion order
    limit,            \* the limit argument
    min_confidence,   \* PatternDetector::min_confidence, in thousandths
    synth_pc,         \* where synthesize_patterns is
    fetched_memories, \* the memories the invocation fetched
    candidates,       \* the patterns the detectors returned, by category
    to_write,         \* the candidates write_patterns has not reached yet
    count,            \* the rows inserted by the invocation so far
    synth_result,     \* the Result of the invocation that returned last
    invocations       \* the invocations that have returned

resolve_vars == <<local, remote, resolution, peer_resolution>>

coord_vars == <<pc, out, subscribed_at, cursor, device_id, delivered, channel, connected_clients,
               broadcast_rx>>

clock_vars == <<vc_self, vc_other, vc_third, vc_prev, vc_op, vc_cmp>>

decay_vars == <<psychology_layers, now, decay_pc, rows, updated, attempted, passes>>

retention_vars == <<ret_layer, ret_strength, ret_duration, ret_value>>

startup_vars == <<env, process, main_pc, exit_code, work_done, errors_logged, ticks>>

detect_vars == <<det_memories, det_patterns>>

synth_vars == <<memories, memory_synthesis, limit, min_confidence, synth_pc, fetched_memories,
                candidates, to_write, count, synth_result, invocations>>

\* what the steps of each part leave alone
outside_resolve ==
    <<coord_vars, clock_vars, decay_vars, retention_vars, startup_vars, detect_vars, synth_vars>>
outside_coordinator ==
    <<resolve_vars, clock_vars, decay_vars, retention_vars, startup_vars, detect_vars, synth_vars>>
outside_clock ==
    <<resolve_vars, coord_vars, decay_vars, retention_vars, startup_vars, detect_vars, synth_vars>>
outside_decay ==
    <<resolve_vars, coord_vars, clock_vars, retention_vars, startup_vars, detect_vars, synth_vars>>
outside_retention ==
    <<resolve_vars, coord_vars, clock_vars, decay_vars, startup_vars, detect_vars, synth_vars>>
outside_startup ==
    <<resolve_vars, coord_vars, clock_vars, decay_vars, retention_vars, detect_vars, synth_vars>>
outside_detect ==
    <<resolve_vars, coord_vars, clock_vars, decay_vars, retention_vars, startup_vars, synth_vars>>
outside_synth ==
    <<resolve_vars, coord_vars, clock_vars, decay_vars, retention_vars, startup_vars, detect_vars>>

vars == <<resolve_vars, coord_vars, clock_vars, decay_vars,
          retention_vars, startup_vars, detect_vars, synth_vars>>

\* no resolution computed yet
Pending == [variant |-> "Pending"]

(***************************************************************************)
(* vector_clock.rs                                                         *)
(***************************************************************************)
\* VectorClock { clocks: HashMap<String, u64> }: a function from the keys
\* present to their counters (a key may be present with counter 0).
VectorClock ==
    UNION { [D -> 0..MaxCounter] : D \in SUBSET Devices }

\* VectorClock::new()
new == [d \in {} |-> 0]

\* other.clocks.get(device).copied().unwrap_or(0)
get_or_zero(clock, device) ==
    IF device \in DOMAIN clock THEN clock[device] ELSE 0

\* happens_before without its second loop (the keys only `other` holds)
happens_before_self_keys(self, other) ==
    IF \E device \in DOMAIN self : self[device] > get_or_zero(other, device)
    THEN FALSE
    ELSE \E device \in DOMAIN self : self[device] < get_or_zero(other, device)

\* happens_before with the second loop not testing other_count > 0: a key
\* that only `other` holds counts as a strict inequality even at 0
happens_before_absent_less(self, other) ==
    IF \E device \in DOMAIN self : self[device] > get_or_zero(other, device)
    THEN FALSE
    ELSE \/ \E device \in DOMAIN self : self[device] < get_or_zero(other, device)
         \/ \E device \in DOMAIN other : device \notin DOMAIN self

\* happens_before with `count < other_count` written `count <= other_count`
happens_before_le(self, other) ==
    IF \E device \in DOMAIN self : self[device] > get_or_zero(other, device)
    THEN FALSE
    ELSE \/ \E device \in DOMAIN self : self[device] <= get_or_zero(other, device)
         \/ \E device \in DOMAIN other :
                device \notin DOMAIN self /\ other[device] > 0

\* VectorClock::happens_before, with its two loops
happens_before(self, other) ==
    IF \E device \in DOMAIN self : self[device] > get_or_zero(other, device)
    THEN FALSE
    ELSE \/ \E device \in DOMAIN self : self[device] < get_or_zero(other, device)
         \/ \E device \in DOMAIN other :
                device \notin DOMAIN self /\ other[device] > 0

\* VectorClock::is_concurrent
is_concurrent(self, other) ==
    ~happens_before(self, other) /\ ~happens_before(other, self)

\* the top of the counter range (u64::MAX), scaled to the largest counter
\* of the model
u64_MAX == MaxCounter

\* u64::max
max(a, b) == IF a > b THEN a ELSE b

\* VectorClock::increment where the addition is not overflow-checked:
\* entry(device).or_insert(0), then *counter += 1 in u64 (wrapping)
increment(self, device) ==
    [d \in DOMAIN self \cup {device} |->
        IF d = device
        THEN (get_or_zero(self, device) + 1) % (u64_MAX + 1)
        ELSE self[d]]

\* merge that stores the counter of `other` instead of the maximum
merge_overwrite(self, other) ==
    [d \in DOMAIN self \cup DOMAIN other |->
        IF d \in DOMAIN other THEN other[d] ELSE self[d]]

\* VectorClock::merge: for every key of `other`,
\* entry(device).or_insert(0) becomes max(current, count)
merge(self, other) ==
    [d \in DOMAIN self \cup DOMAIN other |->
        IF d \in DOMAIN other
        THEN max(get_or_zero(self, d), other[d])
        ELSE self[d]]

(***************************************************************************)
(* SpecClock: the operations of VectorClock applied to the clocks of the   *)
(* model.  vc_self, vc_other and vc_third start as any three clocks; one   *)
(* run either compares them or applies a sequence of increment and merge   *)
(* to vc_self.                                                             *)
(***************************************************************************)
NoOp == [op |-> "none", device |-> "-"]

NotCompared == [done |-> FALSE]

InitClockIdle ==
    /\ vc_self = new
    /\ vc_other = new
    /\ vc_third = new
    /\ vc_prev = new
    /\ vc_op = NoOp
    /\ vc_cmp = NotCompared

\* the calls of happens_before on the three clocks
Compare ==
    /\ vc_op = NoOp
    /\ vc_cmp = NotCompared
    /\ vc_cmp' = [done |-> TRUE,
                  ab |-> happens_before(vc_self, vc_other),
                  ba |-> happens_before(vc_other, vc_self),
                  bc |-> happens_before(vc_other, vc_third),
                  ac |-> happens_before(vc_self, vc_third),
                  aa |-> happens_before(vc_self, vc_self)]
    /\ UNCHANGED <<vc_self, vc_other, vc_third, vc_prev, vc_op>>
    /\ UNCHANGED outside_clock

\* vc_self.increment(device); at u64::MAX the unchecked addition wraps
Increment(device) ==
    /\ vc_cmp = NotCompared
    /\ vc_op.op # "panicked"
    /\ vc_prev' = vc_self
    /\ vc_self' = increment(vc_self, device)
    /\ vc_op' = [op |-> "increment", device |-> device]
    /\ UNCHANGED <<vc_other, vc_third, vc_cmp>>
    /\ UNCHANGED outside_clock

\* vc_self.increment(device) at u64::MAX in a build with overflow checks:
\* `*counter += 1` panics ("attempt to add with overflow")
IncrementPanics(device) ==
    /\ vc_cmp = NotCompared
    /\ vc_op.op # "panicked"
    /\ get_or_zero(vc_self, device) = u64_MAX
    /\ vc_prev' = vc_self
    /\ vc_op' = [op |-> "panicked", device |-> device]
    /\ UNCHANGED <<vc_self, vc_other, vc_third, vc_cmp>>
    /\ UNCHANGED outside_clock

\* vc_self.merge(&vc_other)
Merge ==
    /\ vc_cmp = NotCompared
    /\ vc_op.op # "panicked"
    /\ vc_prev' = vc_self
    /\ vc_self' = merge(vc_self, vc_other)
    /\ vc_op' = [op |-> "merge", device |-> "-"]
    /\ UNCHANGED <<vc_other, vc_third, vc_cmp>>
    /\ UNCHANGED outside_clock

(***************************************************************************)
(* conflict_resolution.rs                                                  *)
(***************************************************************************)
\* SyncEntity (id and data are the same on both sides of one resolution)
SyncEntity ==
    [id : {"E"}, data : {"payload"}, vector_clock : VectorClock,
     last_modified : 0..MaxTime, device_id : Devices]

\* Ok(ConflictResolution::<variant>(entity))
Ok(variant, entity) == [ok |-> TRUE, variant |-> variant, entity |-> entity]

\* resolve_conflict with `>` of the last-write-wins branch written `>=`
resolve_conflict_ge(l, r) ==
    IF happens_before(l.vector_clock, r.vector_clock) THEN Ok("NoConflict", r)
    ELSE IF happens_before(r.vector_clock, l.vector_clock) THEN Ok("NoConflict", l)
    ELSE IF is_concurrent(l.vector_clock, r.vector_clock)
         THEN IF l.last_modified >= r.last_modified
              THEN Ok("LastWriteWins", l)
              ELSE Ok("LastWriteWins", r)
         ELSE Ok("NoConflict", l)

\* resolve_conflict with the two causal branches returning the older side
resolve_conflict_older(l, r) ==
    IF happens_before(l.vector_clock, r.vector_clock) THEN Ok("NoConflict", l)
    ELSE IF happens_before(r.vector_clock, l.vector_clock) THEN Ok("NoConflict", r)
    ELSE IF is_concurrent(l.vector_clock, r.vector_clock)
         THEN IF l.last_modified > r.last_modified
              THEN Ok("LastWriteWins", l)
              ELSE Ok("LastWriteWins", r)
         ELSE Ok("NoConflict", l)

\* resolve_conflict with "Strategy 2" filled in: the winner of a concurrent
\* pair carries the merged clock and is reported as Merge
resolve_conflict_merge(l, r) ==
    LET merged == [d \in DOMAIN l.vector_clock \cup DOMAIN r.vector_clock |->
                     IF get_or_zero(l.vector_clock, d) > get_or_zero(r.vector_clock, d)
                     THEN get_or_zero(l.vector_clock, d)
                     ELSE get_or_zero(r.vector_clock, d)]
    IN  IF happens_before(l.vector_clock, r.vector_clock) THEN Ok("NoConflict", r)
        ELSE IF happens_before(r.vector_clock, l.vector_clock) THEN Ok("NoConflict", l)
        ELSE IF is_concurrent(l.vector_clock, r.vector_clock)
             THEN IF l.vector_clock = r.vector_clock
                  THEN Ok("LastWriteWins", r)
                  ELSE Ok("Merge", [r EXCEPT !.vector_clock = merged])
             ELSE Ok("NoConflict", l)

\* resolve_conflict(local, remote) -> Result<ConflictResolution>
resolve_conflict(l, r) ==
    IF happens_before(l.vector_clock, r.vector_clock)
    THEN Ok("NoConflict", r)                          \* remote is newer
    ELSE IF happens_before(r.vector_clock, l.vector_clock)
    THEN Ok("NoConflict", l)                          \* local is newer
    ELSE IF is_concurrent(l.vector_clock, r.vector_clock)
         THEN IF l.last_modified > r.last_modified
              THEN Ok("LastWriteWins", l)
              ELSE Ok("LastWriteWins", r)
         ELSE Ok("NoConflict", l)

(***************************************************************************)
(* psychology-decay/src/decay_models.rs                                    *)
(*                                                                         *)
(* An f32 is a record: kind "num" with v the value in thousandths, kind    *)
(* "inf" (+infinity) or kind "nan".  The curves are computed in integer    *)
(* arithmetic: exact at elapsed time 0 and at whole multiples of the       *)
(* half-life, interpolated (by the chord) in between; the square root is   *)
(* rounded down to hundredths.                                             *)
(***************************************************************************)
\* the f32 1.0, in thousandths
One == 1000

num(v) == [kind |-> "num", v |-> v]
inf == [kind |-> "inf", v |-> 0]
nan == [kind |-> "nan", v |-> 0]

\* chrono::Duration::num_hours: whole hours, truncated toward zero
num_hours(d) ==
    IF d >= 0 THEN d \div TicksPerHour ELSE -((-d) \div TicksPerHour)

\* 0.5^(t/h) for t >= 0, in thousandths
RECURSIVE half(_, _)
half(t, h) ==
    IF t >= h THEN half(t - h, h) \div 2 ELSE One - ((One \div 2) * t) \div h

\* 0.5f32.powf(t / h)
pow_half(t, h) ==
    IF t >= 0 THEN num(half(t, h))
    ELSE IF half(-t, h) = 0 THEN inf
    ELSE num((One * One) \div half(-t, h))

\* (-t / s).exp(): e^(-t/s) = 0.5^(t / (s * ln 2)), ln 2 = 0.693
exp_neg(t, s) == pow_half(t * 1000, s * 693)

\* the largest r in lo..hi with r * r <= x
RECURSIVE isqrt(_, _, _)
isqrt(x, lo, hi) ==
    IF lo = hi THEN lo
    ELSE LET mid == (lo + hi + 1) \div 2
         IN  IF mid * mid <= x THEN isqrt(x, mid, hi) ELSE isqrt(x, lo, mid - 1)

\* base.powf(-0.5): NaN for a negative base, +infinity for 0
powf_neg_half(base) ==
    IF base < 0 THEN nan
    ELSE IF base = 0 THEN inf
    ELSE num((One * 100) \div
                isqrt(base * 10000, 100, IF base > 463 THEN 46340 ELSE 100 * base))

\* the product with initial_strength left out
times_ignoring_strength(initial_strength, x) == x

\* initial_strength * x
times(initial_strength, x) ==
    IF x.kind = "nan" THEN nan
    ELSE IF x.kind = "inf" THEN (IF initial_strength = 0 THEN nan ELSE inf)
    ELSE num((initial_strength * x.v) \div One)

\* the clamp without .min(1.0)
clamp_no_min(retention) ==
    IF retention.kind = "nan" THEN 0
    ELSE IF retention.kind = "inf" THEN One * One
    ELSE IF retention.v < 0 THEN 0
    ELSE retention.v

\* retention.max(0.0).min(1.0): f32::max returns the other operand for NaN
clamp(retention) ==
    IF retention.kind = "nan" THEN 0
    ELSE IF retention.kind = "inf" THEN One
    ELSE IF retention.v < 0 THEN 0
    ELSE IF retention.v > One THEN One
    ELSE retention.v

EbbinghausCurve(decay_constant) ==
    [model |-> "EbbinghausCurve", param |-> decay_constant]
PowerLawDecay ==
    [model |-> "PowerLawDecay", param |-> 0]
ExponentialDecay(half_life_hours) ==
    [model |-> "ExponentialDecay", param |-> half_life_hours]

\* get_model_for_layer (the one PowerLawDecay has exponent 0.5)
get_model_for_layer(layer_number) ==
    CASE layer_number = 1 -> ExponentialDecay(720)
      [] layer_number = 2 -> EbbinghausCurve(168)
      [] layer_number = 3 -> PowerLawDecay
      [] layer_number = 4 -> ExponentialDecay(360)
      [] layer_number = 5 -> EbbinghausCurve(240)
      [] layer_number = 6 -> ExponentialDecay(480)
      [] layer_number = 7 -> EbbinghausCurve(1440)
      [] OTHER -> EbbinghausCurve(168)

\* DecayModel::calculate_retention of the three models
calculate_retention(model, time_since_access, initial_strength) ==
    LET t == num_hours(time_since_access)
        curve == CASE model.model = "EbbinghausCurve" -> exp_neg(t, model.param)
                   [] model.model = "PowerLawDecay" -> powf_neg_half(1 + t)
                   [] model.model = "ExponentialDecay" -> pow_half(t, model.param)
    IN  clamp(times(initial_strength, curve))

(***************************************************************************)
(* psychology-decay/src/main.rs: calculate_all_decay.                      *)
(*                                                                         *)
(* A pass fetches every row ordered by layer_number, then for each row     *)
(* computes the retention from the age of last_updated and writes          *)
(* decay_rate and last_updated = now.  Every query can fail; `?` returns   *)
(* the error from the pass.  The wall clock advances between the steps.    *)
(***************************************************************************)
RowIds == 1..MaxLayers

\* the layer numbers of the rows: an exponential and a power-law model
LayerNumbers == {1, 3}

\* how long before the start of the run a row was last updated (ticks)
InitialAges == {0, 720 * TicksPerHour}

\* the orders ORDER BY layer_number can return the rows in
FetchOrders ==
    {order \in [1..MaxLayers -> RowIds] :
        /\ \A i, j \in 1..MaxLayers : i # j => order[i] # order[j]
        /\ \A i, j \in 1..MaxLayers :
              i < j => psychology_layers[order[i]].layer_number
                          <= psychology_layers[order[j]].layer_number}

\* a pass that returned: whether the SELECT succeeded, whether the Result
\* is Ok, the time it returned at and the decay rates it left in the table
Returned(fetched, ok) ==
    [fetched |-> fetched, ok |-> ok, at |-> now,
     decay_rate |-> [r \in RowIds |-> psychology_layers[r].decay_rate]]

\* the two passes that returned last
Remember(pass) ==
    IF Len(passes) < 2 THEN Append(passes, pass) ELSE <<passes[2], pass>>

\* the rows a run can find: of either layer number, last updated now or
\* long ago, and a row whose last_updated is one hour ahead of the engine's
\* clock (written by a process whose clock is ahead)
InitialRows ==
    [layer_number : LayerNumbers, decay_rate : {One},
     last_updated : {-age : age \in InitialAges}]
        \cup {[layer_number |-> 1, decay_rate |-> One, last_updated |-> TicksPerHour]}

InitDecayIdle ==
    /\ psychology_layers =
          [r \in RowIds |-> [layer_number |-> 1, decay_rate |-> One, last_updated |-> 0]]
    /\ now = 0
    /\ decay_pc = "idle"
    /\ rows = <<>>
    /\ updated = 0
    /\ attempted = {}
    /\ passes = <<>>

InitDecay ==
    /\ psychology_layers \in [RowIds -> InitialRows]
    /\ now = 0
    /\ decay_pc = "idle"
    /\ rows = <<>>
    /\ updated = 0
    /\ attempted = {}
    /\ passes = <<>>

\* the wall clock advances
Tick ==
    /\ now < MaxElapsed
    /\ now' = now + 1
    /\ UNCHANGED <<psychology_layers, decay_pc, rows, updated, attempted, passes>>
    /\ UNCHANGED outside_decay

\* calculate_all_decay is called; fetch_all is Ok(rows); updated = 0
Fetch ==
    /\ decay_pc = "idle"
    /\ \E order \in FetchOrders :
          rows' = [i \in 1..MaxLayers |->
                     [id |-> order[i],
                      layer_number |-> psychology_layers[order[i]].layer_number,
                      last_updated |-> psychology_layers[order[i]].last_updated]]
    /\ decay_pc' = "loop"
    /\ updated' = 0
    /\ attempted' = {}
    /\ UNCHANGED <<psychology_layers, now, passes>>
    /\ UNCHANGED outside_decay

\* calculate_all_decay is called; fetch_all is Err: `?` returns it
FetchFails ==
    /\ decay_pc = "idle"
    /\ updated' = 0
    /\ attempted' = {}
    /\ rows' = <<>>
    /\ UNCHANGED <<psychology_layers, now, decay_pc>>
    /\ passes' = Remember(Returned(FALSE, FALSE))
    /\ UNCHANGED outside_decay

\* the retention applied to the decay_rate the row holds
new_decay_compounding(row) ==
    (psychology_layers[row.id].decay_rate
        * calculate_retention(get_model_for_layer(row.layer_number),
                              now - row.last_updated, One)) \div One

\* the decay_rate the loop body computes for a fetched row
new_decay(row) ==
    calculate_retention(get_model_for_layer(row.layer_number),
                        now - row.last_updated, One)

\* one turn of the loop whose UPDATE is Ok: the row is written, updated += 1
UpdateRow ==
    /\ decay_pc = "loop"
    /\ rows # <<>>
    /\ LET row == Head(rows)
       IN  /\ psychology_layers' =
                 [psychology_layers EXCEPT
                    ![row.id] = [@ EXCEPT !.decay_rate = new_decay(row),
                                          !.last_updated = now]]
           /\ attempted' = attempted \cup {row.id}
    /\ updated' = updated + 1
    /\ rows' = Tail(rows)
    /\ UNCHANGED <<now, decay_pc, passes>>
    /\ UNCHANGED outside_decay

\* one turn of the loop whose UPDATE is Err: `?` returns the error from
\* calculate_all_decay, the rows that remain are not visited
UpdateRowFails ==
    /\ decay_pc = "loop"
    /\ rows # <<>>
    /\ attempted' = attempted \cup {Head(rows).id}
    /\ rows' = <<>>
    /\ decay_pc' = "idle"
    /\ UNCHANGED <<psychology_layers, now, updated>>
    /\ passes' = Remember(Returned(TRUE, FALSE))
    /\ UNCHANGED outside_decay

\* the loop is over: info!("Updated decay for {} ..."), Ok(updated)
ReturnOk ==
    /\ decay_pc = "loop"
    /\ rows = <<>>
    /\ decay_pc' = "idle"
    /\ UNCHANGED <<psychology_layers, now, rows, updated, attempted>>
    /\ passes' = Remember(Returned(TRUE, TRUE))
    /\ UNCHANGED outside_decay

(***************************************************************************)
(* SpecRetention: get_model_for_layer and calculate_retention applied to   *)
(* every layer number, strength and duration of the sets below.            *)
(***************************************************************************)
\* layer numbers: 1..7 and two numbers without a model of their own
LayerInputs == 0..8

\* initial strengths in [0, 1], in thousandths
Strengths == {0, 250, 500, One}

\* elapsed durations in ticks: whole hours (among them the decay constants
\* and a year), durations within an hour, and negative durations
Durations ==
    {h * TicksPerHour : h \in {-720, -2, -1, 0, 1, 168, 720, 8760}}
        \cup {-1, 1, -TicksPerHour - 1, TicksPerHour + 1}

NotCalculated == [done |-> FALSE, v |-> 0]

InitRetentionIdle ==
    /\ ret_layer = 1
    /\ ret_strength = One
    /\ ret_duration = 0
    /\ ret_value = NotCalculated

InitRetention ==
    /\ ret_layer \in LayerInputs
    /\ ret_strength \in Strengths
    /\ ret_duration \in Durations
    /\ ret_value = NotCalculated

\* get_model_for_layer(layer).calculate_retention(duration, strength)
Calculate ==
    /\ ~ret_value.done
    /\ ret_value' =
          [done |-> TRUE,
           v |-> calculate_retention(get_model_for_layer(ret_layer),
                                     ret_duration, ret_strength)]
    /\ UNCHANGED <<ret_layer, ret_strength, ret_duration>>
    /\ UNCHANGED outside_retention

(***************************************************************************)
(* Start-up of the three binaries: memory-synthesis/src/main.rs,           *)
(* psychology-decay/src/main.rs (with --once and scheduled) and            *)
(* sync-coordinator/src/main.rs, each through SupabaseClient::new of       *)
(* shared/src/supabase.rs.                                                 *)
(***************************************************************************)
EnvVars == {"SUPABASE_URL", "SUPABASE_SERVICE_ROLE_KEY", "SUPABASE_DB_URL"}

Processes == {"memory-synthesis", "psychology-decay --once", "psychology-decay",
              "sync-coordinator"}

\* SupabaseClient::new: Err when one of the three variables is not set or
\* the pool cannot connect
new_client(connects) ==
    IF "SUPABASE_URL" \notin env THEN "SUPABASE_URL not set"
    ELSE IF "SUPABASE_SERVICE_ROLE_KEY" \notin env THEN "SUPABASE_SERVICE_ROLE_KEY not set"
    ELSE IF "SUPABASE_DB_URL" \notin env THEN "SUPABASE_DB_URL not set"
    ELSE IF ~connects THEN "Failed to connect to Supabase PostgreSQL"
    ELSE "Ok"

InitStartupIdle ==
    /\ env = EnvVars
    /\ process = "sync-coordinator"
    /\ main_pc = "start"
    /\ exit_code = -1
    /\ work_done = 0
    /\ errors_logged = 0
    /\ ticks = 0

InitStartup ==
    /\ env \in SUBSET EnvVars
    /\ process \in Processes
    /\ main_pc = "start"
    /\ exit_code = -1
    /\ work_done = 0
    /\ errors_logged = 0
    /\ ticks = 0

\* main of a binary that creates its client first: SupabaseClient::new() is
\* Err and `?` returns it from main (exit status 1)
StartClientFails ==
    /\ main_pc = "start"
    /\ process # "psychology-decay"
    /\ \E connects \in BOOLEAN : new_client(connects) # "Ok"
    /\ main_pc' = "exited"
    /\ exit_code' = 1
    /\ UNCHANGED <<env, process, work_done, errors_logged, ticks>>
    /\ UNCHANGED outside_startup

\* main of memory-synthesis or of psychology-decay --once: the client is
\* created, the one invocation runs and main returns its Result
\* (memory-synthesis logs the error before returning it)
StartAndRunOnce ==
    /\ main_pc = "start"
    /\ process \in {"memory-synthesis", "psychology-decay --once"}
    /\ new_client(TRUE) = "Ok"
    /\ work_done' = work_done + 1
    /\ main_pc' = "exited"
    /\ \E ok \in BOOLEAN :
          /\ exit_code' = IF ok THEN 0 ELSE 1
          /\ errors_logged' = IF ~ok /\ process = "memory-synthesis"
                              THEN errors_logged + 1 ELSE errors_logged
    /\ UNCHANGED <<env, process, ticks>>
    /\ UNCHANGED outside_startup

\* main of sync-coordinator: the client is created, the listener is bound
\* (or bind fails and `?` returns) and axum::serve runs
StartServing ==
    /\ main_pc = "start"
    /\ process = "sync-coordinator"
    /\ new_client(TRUE) = "Ok"
    /\ \E bound \in BOOLEAN :
          /\ main_pc' = IF bound THEN "serving" ELSE "exited"
          /\ exit_code' = IF bound THEN exit_code ELSE 1
          /\ work_done' = IF bound THEN work_done + 1 ELSE work_done
    /\ UNCHANGED <<env, process, errors_logged, ticks>>
    /\ UNCHANGED outside_startup

\* main of psychology-decay without --once: the scheduler is created, the
\* job added and the scheduler started (or one of these fails and `?`
\* returns); no client is created here
StartScheduler ==
    /\ main_pc = "start"
    /\ process = "psychology-decay"
    /\ \E started \in BOOLEAN :
          /\ main_pc' = IF started THEN "scheduled" ELSE "exited"
          /\ exit_code' = IF started THEN exit_code ELSE 1
    /\ UNCHANGED <<env, process, work_done, errors_logged, ticks>>
    /\ UNCHANGED outside_startup

\* one tick of the schedule with a failed attempt made once more within
\* the tick
JobTick_retry ==
    /\ main_pc = "scheduled"
    /\ ticks < MaxJobTicks
    /\ ticks' = ticks + 1
    /\ \E connects \in BOOLEAN, ok \in BOOLEAN :
          IF new_client(connects) # "Ok"
          THEN /\ errors_logged' = errors_logged + 2
               /\ UNCHANGED work_done
          ELSE /\ work_done' = IF ok THEN work_done + 1 ELSE work_done + 2
               /\ errors_logged' = IF ok THEN errors_logged ELSE errors_logged + 2
    /\ UNCHANGED <<env, process, main_pc, exit_code>>
    /\ UNCHANGED outside_startup

\* one tick of the schedule: the job creates a client; Err is logged; Ok
\* runs calculate_all_decay, whose Err is logged
JobTick ==
    /\ main_pc = "scheduled"
    /\ ticks < MaxJobTicks
    /\ ticks' = ticks + 1
    /\ \E connects \in BOOLEAN, ok \in BOOLEAN :
          IF new_client(connects) # "Ok"
          THEN /\ errors_logged' = errors_logged + 1
               /\ UNCHANGED work_done
          ELSE /\ work_done' = work_done + 1
               /\ errors_logged' = IF ok THEN errors_logged ELSE errors_logged + 1
    /\ UNCHANGED <<env, process, main_pc, exit_code>>
    /\ UNCHANGED outside_startup

\* tokio::signal::ctrl_c() returns: "Shutting down", main returns Ok(())
CtrlC ==
    /\ main_pc = "scheduled"
    /\ main_pc' = "exited"
    /\ exit_code' = 0
    /\ UNCHANGED <<env, process, work_done, errors_logged, ticks>>
    /\ UNCHANGED outside_startup

(***************************************************************************)
(* memory-synthesis/src/pattern_detection.rs and clustering.rs: the three  *)
(* detectors.                                                              *)
(*                                                                         *)
(* A Memory is a record of its id, user_id, created_at (in ticks),         *)
(* embedding (whether it has one) and emotional_valence (an Option of a    *)
(* value in thousandths).  A Pattern is a record of memory_ids,            *)
(* pattern_type, confidence (in thousandths) and synthesis.                *)
(***************************************************************************)
None == [some |-> FALSE, v |-> 0]
Some(v) == [some |-> TRUE, v |-> v]

Memory(id, user_id, created_at, embedding, emotional_valence) ==
    [id |-> id, user_id |-> user_id, created_at |-> created_at,
     embedding |-> embedding, emotional_valence |-> emotional_valence]

Pattern(memory_ids, pattern_type, confidence, synthesis) ==
    [memory_ids |-> memory_ids, pattern_type |-> pattern_type,
     confidence |-> confidence, synthesis |-> synthesis]

\* i64::abs
abs(n) == IF n < 0 THEN -n ELSE n

\* the loop of detect_temporal_patterns from memories[i] on
RECURSIVE temporal_loop(_, _, _, _, _)
temporal_loop(mems, i, current_group, last_timestamp, patterns) ==
    IF i > Len(mems) THEN patterns
    ELSE LET memory == mems[i]
             gap == /\ last_timestamp.some
                    /\ abs(num_hours(memory.created_at - last_timestamp.v)) > 24
             emitted ==
                 IF gap /\ Len(current_group) >= 3
                 THEN Append(patterns,
                             Pattern(current_group, "temporal_cluster", 800,
                                     <<"Cluster of", Len(current_group),
                                       "memories within 24-hour period">>))
                 ELSE patterns
             group == IF gap THEN <<>> ELSE current_group
         IN  temporal_loop(mems, i + 1, Append(group, memory.id),
                           Some(memory.created_at), emitted)

\* PatternDetector::detect_temporal_patterns
detect_temporal_patterns(mems) == temporal_loop(mems, 1, <<>>, None, <<>>)

\* the ids of a sequence of memories, in order
ids(mems) == [k \in 1..Len(mems) |-> mems[k].id]

\* detect_emotional_patterns with `valence > 0.3` written `valence >= 0.3`
detect_emotional_patterns_ge(mems) ==
    LET is_positive(m) == m.emotional_valence.some /\ m.emotional_valence.v >= 300
        is_negative(m) == /\ m.emotional_valence.some
                          /\ ~(m.emotional_valence.v >= 300)
                          /\ m.emotional_valence.v < -300
        positive == ids(SelectSeq(mems, is_positive))
        negative == ids(SelectSeq(mems, is_negative))
    IN  (IF Len(positive) >= 5
         THEN <<Pattern(positive, "emotional_positive", 850,
                        "Cluster of positive emotional memories")>>
         ELSE <<>>)
        \o
        (IF Len(negative) >= 5
         THEN <<Pattern(negative, "emotional_negative", 850,
                        "Cluster of negative emotional memories")>>
         ELSE <<>>)

\* PatternDetector::detect_emotional_patterns
detect_emotional_patterns(mems) ==
    LET is_positive(m) == m.emotional_valence.some /\ m.emotional_valence.v > 300
        is_negative(m) == /\ m.emotional_valence.some
                          /\ ~(m.emotional_valence.v > 300)
                          /\ m.emotional_valence.v < -300
        positive == ids(SelectSeq(mems, is_positive))
        negative == ids(SelectSeq(mems, is_negative))
    IN  (IF Len(positive) >= 5
         THEN <<Pattern(positive, "emotional_positive", 850,
                        "Cluster of positive emotional memories")>>
         ELSE <<>>)
        \o
        (IF Len(negative) >= 5
         THEN <<Pattern(negative, "emotional_negative", 850,
                        "Cluster of negative emotional memories")>>
         ELSE <<>>)

\* usize::max and usize::min
umax(a, b) == IF a > b THEN a ELSE b
umin(a, b) == IF a < b THEN a ELSE b

\* n_clusters of cluster_memories
n_clusters(n_memories, min_cluster_size) ==
    umin(umax(n_memories \div min_cluster_size, 2), 10)

\* what the k-means fit can predict for n memories: a label below
\* n_clusters for each of them
Predictions(n_memories, min_cluster_size) ==
    [1..n_memories -> 0..(n_clusters(n_memories, min_cluster_size) - 1)]

\* the orders in which the HashMap cluster_map can be iterated
RECURSIVE Orders(_)
Orders(labels) ==
    IF labels = {} THEN {<<>>}
    ELSE UNION {{<<l>> \o rest : rest \in Orders(labels \ {l})} : l \in labels}

\* cluster_memories after the fit: the labels are grouped, the groups of at
\* least min_cluster_size members become Clusters
RECURSIVE clusters_of(_, _, _, _)
clusters_of(mems, min_cluster_size, predictions, order) ==
    IF order = <<>> THEN <<>>
    ELSE LET label == Head(order)
             memory_ids ==
                 [k \in 1..Cardinality({i \in 1..Len(mems) : predictions[i] = label}) |->
                    mems[CHOOSE i \in 1..Len(mems) :
                            /\ predictions[i] = label
                            /\ Cardinality({j \in 1..i : predictions[j] = label}) = k].id]
             rest == clusters_of(mems, min_cluster_size, predictions, Tail(order))
         IN  IF Len(memory_ids) >= min_cluster_size
             THEN <<[memory_ids |-> memory_ids, confidence |-> 750,
                     description |-> <<"Semantic cluster", label, "with",
                                       Len(memory_ids), "memories">>]>> \o rest
             ELSE rest

\* the memories of a slice that have an embedding, in order
with_embeddings(mems) ==
    LET has_embedding(m) == m.embedding IN SelectSeq(mems, has_embedding)

\* the labels the predictions use
LabelsOf(predictions) == {predictions[i] : i \in DOMAIN predictions}

\* PatternDetector::detect_semantic_patterns when the fit is Ok, for one
\* prediction of the fit and one iteration order of cluster_map
detect_semantic_patterns(mems, predictions, order) ==
    LET memories_with_embeddings == with_embeddings(mems)
        clusters == clusters_of(memories_with_embeddings, 3, predictions, order)
    IN  [k \in 1..Len(clusters) |->
            Pattern(clusters[k].memory_ids, "semantic_cluster",
                    clusters[k].confidence, clusters[k].description)]

(***************************************************************************)
(* SpecDetect: detect_temporal_patterns and detect_emotional_patterns      *)
(* applied to slices of memories: for the temporal detector every sequence *)
(* of gaps up to MaxMemories memories, newest first; for the emotional     *)
(* detector every assignment of valences to MaxMemories memories.          *)
(***************************************************************************)
\* gaps between two memories that follow each other: none, 24 hours and
\* one tick, 25 hours
Gaps == {0, 24 * TicksPerHour + 1, 25 * TicksPerHour}

\* the valences: absent, on the two thresholds, and beyond them
Valences == {None, Some(-500), Some(-300), Some(300), Some(500)}

\* created_at of memory i when the gaps before the memories are `gaps`
RECURSIVE created_before(_, _)
created_before(gaps, i) ==
    IF i = 1 THEN 0 ELSE created_before(gaps, i - 1) - gaps[i - 1]

TemporalInputs ==
    UNION {{[i \in 1..n |-> Memory(i, "U", created_before(gaps, i), FALSE, None)] :
               gaps \in [1..(n - 1) -> Gaps]} : n \in 1..MaxMemories}
        \cup {<<>>}

EmotionalInputs ==
    {[i \in 1..MaxMemories |-> Memory(i, "U", 1 - i, FALSE, valence[i])] :
        valence \in [1..MaxMemories -> Valences]}

NotDetected == [by |-> "none", patterns |-> <<>>]

InitDetectIdle ==
    /\ det_memories = <<>>
    /\ det_patterns = NotDetected

InitDetect ==
    /\ det_memories \in TemporalInputs \cup EmotionalInputs
    /\ det_patterns = NotDetected

DetectTemporal ==
    /\ det_patterns = NotDetected
    /\ det_patterns' = [by |-> "temporal",
                        patterns |-> detect_temporal_patterns(det_memories)]
    /\ UNCHANGED det_memories
    /\ UNCHANGED outside_detect

DetectEmotional ==
    /\ det_patterns = NotDetected
    /\ det_patterns' = [by |-> "emotional",
                        patterns |-> detect_emotional_patterns(det_memories)]
    /\ UNCHANGED det_memories
    /\ UNCHANGED outside_detect

(***************************************************************************)
(* pattern_detection.rs: synthesize_patterns against the two tables.       *)
(*                                                                         *)
(* `memories` is the memories table, a sequence of Memory records in       *)
(* insertion order; `memory_synthesis` is the memory_synthesis table, a    *)
(* sequence of MemorySynthesis records in insertion order.  The time       *)
(* Utc::now() gives a row is the number of the invocation that wrote it.   *)
(***************************************************************************)
\* the user synthesize_patterns is called for, and another one
User == "U"
OtherUser == "V"

\* a memories table: one memory of the other user, then n memories of the
\* user, oldest first.  Memory i of the user (1 is the newest) is i - 1
\* ticks old, and 25 hours older when it lies behind the split; the
\* MaxEmbedded newest carry an embedding when `embedded`.
Scenario(n, split, valence, embedded) ==
    <<Memory(0, OtherUser, 0, TRUE, Some(500))>> \o
    [k \in 1..n |->
        LET i == n + 1 - k
        IN  Memory(i, User,
                   (1 - i) - (IF split > 0 /\ i > split
                              THEN 25 * TicksPerHour ELSE 0),
                   embedded /\ i <= MaxEmbedded, valence)]

Scenarios ==
    {Scenario(n, split, valence, embedded) :
        n \in 0..MaxMemories, split \in 0..(MaxMemories - 1),
        valence \in {None, Some(500)}, embedded \in BOOLEAN}

\* --limit: a limit that cuts the table short, and the default of main.rs
Limits == {4, 100}

\* --confidence, in thousandths
MinConfidences == {500, 800, 900}

\* the rows of a set of memories, newest first (ORDER BY created_at DESC)
RECURSIVE sorted_desc(_)
sorted_desc(S) ==
    IF S = {} THEN <<>>
    ELSE LET m == CHOOSE m \in S : \A o \in S : o.created_at <= m.created_at
         IN  <<m>> \o sorted_desc(S \ {m})

\* fetch_recent_memories without `WHERE user_id = $1`
fetch_recent_memories_any_user(user_id, lim) ==
    LET selected == sorted_desc({memories[i] : i \in DOMAIN memories})
    IN  SubSeq(selected, 1, umin(lim, Len(selected)))

\* PatternDetector::fetch_recent_memories when the query is Ok
fetch_recent_memories(user_id, lim) ==
    LET selected == sorted_desc({memories[i] : i \in {j \in DOMAIN memories :
                                                       memories[j].user_id = user_id}})
    IN  SubSeq(selected, 1, umin(lim, Len(selected)))

\* Result<usize> of synthesize_patterns
NoResult == [kind |-> "none", count |-> 0, cause |-> <<>>]
OkCount(n) == [kind |-> "Ok", count |-> n, cause |-> <<>>]
\* an anyhow::Error: the chain of its contexts, the root cause last
ErrChain(chain) == [kind |-> "Err", count |-> 0, cause |-> chain]

\* the patterns of one family, each with the category write_patterns gets
tagged(category, patterns) ==
    [k \in 1..Len(patterns) |-> [category |-> category, pattern |-> patterns[k]]]

\* the three write_patterns calls with the emotional family first
write_order_emotional_first(temporal, semantic, emotional) ==
    tagged("emotional", emotional)
        \o tagged("temporal", temporal)
        \o tagged("semantic", semantic)

\* the patterns in the order of the three write_patterns calls of
\* synthesize_patterns
write_order(temporal, semantic, emotional) ==
    tagged("temporal", temporal)
        \o tagged("semantic", semantic)
        \o tagged("emotional", emotional)

\* the test of write_patterns with `<` written `<=`
below_threshold_le(confidence, min_conf) == confidence <= min_conf

\* `pattern.confidence < self.min_confidence` of write_patterns
below_threshold(confidence, min_conf) == confidence < min_conf

\* format!("{}_{}", category, pattern.pattern_type)
format_pattern_type(category, pattern_type) == category \o "_" \o pattern_type

\* the MemorySynthesis write_patterns builds for a pattern
MemorySynthesis(id, user_id, category, pattern, created_at) ==
    [id |-> id, user_id |-> user_id,
     pattern_type |-> format_pattern_type(category, pattern.pattern_type),
     memory_ids |-> pattern.memory_ids,
     synthesis_content |-> pattern.synthesis,
     confidence_score |-> pattern.confidence,
     created_at |-> created_at]

\* an insert that replaces the row of the same user, pattern_type and
\* memory_ids when there is one
insert_row_dedup(table, row) ==
    IF \E k \in DOMAIN table : /\ table[k].user_id = row.user_id
                               /\ table[k].pattern_type = row.pattern_type
                               /\ table[k].memory_ids = row.memory_ids
    THEN [k \in DOMAIN table |->
            IF /\ table[k].user_id = row.user_id
               /\ table[k].pattern_type = row.pattern_type
               /\ table[k].memory_ids = row.memory_ids
            THEN row ELSE table[k]]
    ELSE Append(table, row)

\* INSERT INTO memory_synthesis ... VALUES (...)
insert_row(table, row) == Append(table, row)

InitSynthIdle ==
    /\ memories = <<>>
    /\ memory_synthesis = <<>>
    /\ limit = 100
    /\ min_confidence = 700
    /\ synth_pc = "idle"
    /\ fetched_memories = <<>>
    /\ candidates = <<>>
    /\ to_write = <<>>
    /\ count = 0
    /\ synth_result = NoResult
    /\ invocations = 0

InitSynth ==
    /\ memories \in Scenarios
    /\ memory_synthesis = <<>>
    /\ limit \in Limits
    /\ min_confidence \in MinConfidences
    /\ synth_pc = "idle"
    /\ fetched_memories = <<>>
    /\ candidates = <<>>
    /\ to_write = <<>>
    /\ count = 0
    /\ synth_result = NoResult
    /\ invocations = 0

\* synthesize_patterns can be called: no invocation is running
CanInvoke ==
    /\ synth_pc \in {"idle", "returned"}
    /\ invocations < MaxInvocations

\* synthesize_patterns: the query of fetch_recent_memories fails
SynthFetchFails ==
    /\ CanInvoke
    /\ invocations' = invocations + 1
    /\ fetched_memories' = <<>>
    /\ candidates' = <<>>
    /\ to_write' = <<>>
    /\ count' = 0
    /\ synth_result' = ErrChain(<<"Failed to fetch memories from Supabase",
                                  "sqlx::Error">>)
    /\ synth_pc' = "returned"
    /\ UNCHANGED <<memories, memory_synthesis, limit, min_confidence>>
    /\ UNCHANGED outside_synth

\* synthesize_patterns: the user has no memories
SynthNoMemories ==
    /\ CanInvoke
    /\ fetch_recent_memories(User, limit) = <<>>
    /\ invocations' = invocations + 1
    /\ fetched_memories' = <<>>
    /\ candidates' = <<>>
    /\ to_write' = <<>>
    /\ count' = 0
    /\ synth_result' = OkCount(0)
    /\ synth_pc' = "returned"
    /\ UNCHANGED <<memories, memory_synthesis, limit, min_confidence>>
    /\ UNCHANGED outside_synth

\* synthesize_patterns: the memories are fetched and the three detectors
\* run; the k-means fit, when there is one, is Ok
SynthDetect ==
    /\ CanInvoke
    /\ fetch_recent_memories(User, limit) # <<>>
    /\ \E predictions \in Predictions(
              Len(with_embeddings(fetch_recent_memories(User, limit))), 3) :
         \E order \in Orders(LabelsOf(predictions)) :
           LET mems == fetch_recent_memories(User, limit)
               temporal == detect_temporal_patterns(mems)
               semantic == detect_semantic_patterns(mems, predictions, order)
               emotional == detect_emotional_patterns(mems)
               all == write_order(temporal, semantic, emotional)
           IN  /\ fetched_memories' = mems
               /\ candidates' = all
               /\ to_write' = all
    /\ invocations' = invocations + 1
    /\ count' = 0
    /\ synth_result' = NoResult
    /\ synth_pc' = "writing"
    /\ UNCHANGED <<memories, memory_synthesis, limit, min_confidence>>
    /\ UNCHANGED outside_synth

\* the failure of the k-means fit with the temporal pattern already written
SynthFitFails_after_temporal ==
    /\ CanInvoke
    /\ with_embeddings(fetch_recent_memories(User, limit)) # <<>>
    /\ invocations' = invocations + 1
    /\ fetched_memories' = fetch_recent_memories(User, limit)
    /\ candidates' = <<>>
    /\ to_write' = <<>>
    /\ count' = 0
    /\ synth_result' = ErrChain(<<"KMeans fit error">>)
    /\ synth_pc' = "returned"
    /\ LET temporal == detect_temporal_patterns(fetch_recent_memories(User, limit))
       IN  memory_synthesis' =
              IF temporal # <<>> /\ ~below_threshold(temporal[1].confidence, min_confidence)
              THEN insert_row(memory_synthesis,
                              MemorySynthesis(Len(memory_synthesis) + 1, User,
                                              "temporal", temporal[1], invocations + 1))
              ELSE memory_synthesis
    /\ UNCHANGED <<memories, limit, min_confidence>>
    /\ UNCHANGED outside_synth

\* synthesize_patterns: the memories are fetched, and cluster_memories
\* returns the error of the k-means fit
SynthFitFails ==
    /\ CanInvoke
    /\ with_embeddings(fetch_recent_memories(User, limit)) # <<>>
    /\ invocations' = invocations + 1
    /\ fetched_memories' = fetch_recent_memories(User, limit)
    /\ candidates' = <<>>
    /\ to_write' = <<>>
    /\ count' = 0
    /\ synth_result' = ErrChain(<<"KMeans fit error">>)
    /\ synth_pc' = "returned"
    /\ UNCHANGED <<memories, memory_synthesis, limit, min_confidence>>
    /\ UNCHANGED outside_synth

\* write_patterns: the next pattern is below min_confidence
SkipPattern ==
    /\ synth_pc = "writing"
    /\ to_write # <<>>
    /\ below_threshold(Head(to_write).pattern.confidence, min_confidence)
    /\ to_write' = Tail(to_write)
    /\ UNCHANGED <<memories, memory_synthesis, limit, min_confidence, synth_pc,
                   fetched_memories, candidates, count, synth_result, invocations>>
    /\ UNCHANGED outside_synth

\* write_patterns: the next pattern is inserted
InsertPattern ==
    /\ synth_pc = "writing"
    /\ to_write # <<>>
    /\ ~below_threshold(Head(to_write).pattern.confidence, min_confidence)
    /\ memory_synthesis' =
          insert_row(memory_synthesis,
                     MemorySynthesis(Len(memory_synthesis) + 1, User,
                                     Head(to_write).category,
                                     Head(to_write).pattern, invocations))
    /\ count' = count + 1
    /\ to_write' = Tail(to_write)
    /\ UNCHANGED <<memories, limit, min_confidence, synth_pc,
                   fetched_memories, candidates, synth_result, invocations>>
    /\ UNCHANGED outside_synth

\* an insert failure that also takes back the rows of the invocation
InsertPatternFails_rollback ==
    /\ synth_pc = "writing"
    /\ to_write # <<>>
    /\ ~below_threshold(Head(to_write).pattern.confidence, min_confidence)
    /\ LET earlier(row) == row.created_at # invocations
       IN  memory_synthesis' = SelectSeq(memory_synthesis, earlier)
    /\ synth_result' = ErrChain(<<"Failed to write synthesis to Supabase",
                                  "sqlx::Error">>)
    /\ synth_pc' = "returned"
    /\ UNCHANGED <<memories, limit, min_confidence,
                   fetched_memories, candidates, to_write, count, invocations>>
    /\ UNCHANGED outside_synth

\* write_patterns: the insert of the next pattern fails
InsertPatternFails ==
    /\ synth_pc = "writing"
    /\ to_write # <<>>
    /\ ~below_threshold(Head(to_write).pattern.confidence, min_confidence)
    /\ synth_result' = ErrChain(<<"Failed to write synthesis to Supabase",
                                  "sqlx::Error">>)
    /\ synth_pc' = "returned"
    /\ UNCHANGED <<memories, memory_synthesis, limit, min_confidence,
                   fetched_memories, candidates, to_write, count, invocations>>
    /\ UNCHANGED outside_synth

\* synthesize_patterns: the three write_patterns calls are done
SynthReturn ==
    /\ synth_pc = "writing"
    /\ to_write = <<>>
    /\ synth_result' = OkCount(count)
    /\ synth_pc' = "returned"
    /\ UNCHANGED <<memories, memory_synthesis, limit, min_confidence,
                   fetched_memories, candidates, to_write, count, invocations>>
    /\ UNCHANGED outside_synth

(***************************************************************************)
(* main.rs: the coordinator.                                               *)
(*                                                                         *)
(* Every connection runs handle_socket: it subscribes to the broadcast     *)
(* channel, draws a device identifier, spawns the broadcast task (recv     *)
(* from the channel, serialise, send on the socket) and then runs the      *)
(* receive loop (read a frame, parse, broadcast).  Steps are atomic        *)
(* between the await points of the two tasks.                              *)
(***************************************************************************)
Sessions == 1..MaxSessions

\* the run accepts this many broadcasts: enough for a receiver to overrun
\* its channel and for one more message to follow
MaxMessages == ChannelCapacity + 2

\* SyncMessage::Delta and SyncMessage::Conflict: the fields serde requires
DeltaFields == {"entity_type", "entity_id", "data", "vector_clock", "device_id"}
ConflictFields == {"entity_id", "local", "remote"}

AnEntity ==
    [id |-> "E", data |-> "payload", vector_clock |-> [d \in {"A"} |-> 1],
     last_modified |-> 0, device_id |-> "A"]

\* Text frames a client may send: a JSON object is the function from its
\* keys to its values.
DeltaText ==
    [type |-> "Delta", entity_type |-> "memory", entity_id |-> "E",
     data |-> "payload", vector_clock |-> [d \in {"A"} |-> 1], device_id |-> "A"]
DeltaTextWithUnknownKey ==
    [type |-> "Delta", entity_type |-> "memory", entity_id |-> "E",
     data |-> "payload", vector_clock |-> [d \in {"A"} |-> 1], device_id |-> "A",
     note |-> "x"]
DeltaTextWithoutDeviceId ==
    [type |-> "Delta", entity_type |-> "memory", entity_id |-> "E",
     data |-> "payload", vector_clock |-> [d \in {"A"} |-> 1]]
ConflictText ==
    [type |-> "Conflict", entity_id |-> "E", local |-> AnEntity, remote |-> AnEntity]
NotJson == [unparseable |-> "{"]

TextFrames ==
    {DeltaText, DeltaTextWithUnknownKey, DeltaTextWithoutDeviceId, ConflictText, NotJson}

Restrict(f, keys) == [k \in keys |-> f[k]]

\* serde_json::from_str::<SyncMessage>(&text): the variant is chosen by the
\* "type" tag, every field of the variant must be present, unknown keys are
\* ignored
from_str(text) ==
    IF "type" \notin DOMAIN text THEN [ok |-> FALSE]
    ELSE IF text["type"] = "Delta" /\ DeltaFields \subseteq DOMAIN text
         THEN [ok |-> TRUE, msg |-> Restrict(text, {"type"} \cup DeltaFields)]
    ELSE IF text["type"] = "Conflict" /\ ConflictFields \subseteq DOMAIN text
         THEN [ok |-> TRUE, msg |-> Restrict(text, {"type"} \cup ConflictFields)]
    ELSE [ok |-> FALSE]

\* serde_json::to_string(&msg): a JSON object with the "type" tag and the
\* fields of the variant
to_string(msg) ==
    IF msg["type"] = "Delta"
    THEN [k \in {"type"} \cup DeltaFields |-> msg[k]]
    ELSE [k \in {"type"} \cup ConflictFields |-> msg[k]]

\* Uuid::new_v4(): an identifier no earlier session holds
new_v4(issued) == CHOOSE u \in 1..(MaxSessions + 1) : u \notin issued

\* the sessions whose broadcast_rx is alive: the receivers the channel counts
Receivers == {c \in Sessions : broadcast_rx[c]}

\* broadcast::Receiver::recv returns Err(Lagged) when more than the
\* capacity was sent since the message the receiver is to read next
Overrun(c) == out[c] = "running" /\ Len(channel) - cursor[c] > ChannelCapacity

InitCoordinator ==
    /\ pc = [c \in Sessions |-> "unborn"]
    /\ out = [c \in Sessions |-> "none"]
    /\ subscribed_at = [c \in Sessions |-> 0]
    /\ cursor = [c \in Sessions |-> 0]
    /\ device_id = [c \in Sessions |-> 0]
    /\ delivered = [c \in Sessions |-> <<>>]
    /\ channel = <<>>
    /\ connected_clients = {}
    /\ broadcast_rx = [c \in Sessions |-> FALSE]

\* ws_handler / handle_socket up to the receive loop: split the socket,
\* subscribe, draw the device id, spawn the broadcast task
Connect(c) ==
    /\ pc[c] = "unborn"
    /\ \A b \in Sessions : b < c => pc[b] # "unborn"
    /\ pc' = [pc EXCEPT ![c] = "receiving"]
    /\ out' = [out EXCEPT ![c] = "running"]
    /\ subscribed_at' = [subscribed_at EXCEPT ![c] = Len(channel)]
    /\ cursor' = [cursor EXCEPT ![c] = Len(channel)]
    /\ device_id' = [device_id EXCEPT ![c] =
                        new_v4({device_id[b] : b \in {s \in Sessions : pc[s] # "unborn"}})]
    /\ broadcast_rx' = [broadcast_rx EXCEPT ![c] = TRUE]
    /\ UNCHANGED <<delivered, channel, connected_clients>>
    /\ UNCHANGED outside_coordinator

\* state.broadcast_tx.send(sync_msg): stored for the receivers alive now;
\* with no receiver the send fails and the message is dropped (let _ =)
broadcast_send(c, msg) ==
    IF Receivers = {}
    THEN channel
    ELSE Append(channel, [msg |-> msg, from |-> c])

\* one turn of the receive loop on a text frame (the clients of one run send
\* at most MaxMessages accepted frames, at most one of them a Conflict)
InboundText(c, text) ==
    /\ pc[c] = "receiving"
    /\ Len(channel) < MaxMessages
    /\ text = ConflictText => \A i \in 1..Len(channel) : channel[i].msg["type"] # "Conflict"
    /\ LET parsed == from_str(text)
       IN  channel' = IF parsed.ok THEN broadcast_send(c, parsed.msg) ELSE channel
    /\ UNCHANGED <<pc, out, subscribed_at, cursor, device_id, delivered, connected_clients, broadcast_rx>>
    /\ UNCHANGED outside_coordinator

\* one turn of the receive loop on a binary, ping, pong or close frame
InboundNonText(c) ==
    /\ pc[c] = "receiving"
    /\ UNCHANGED coord_vars
    /\ UNCHANGED outside_coordinator

\* InboundEnd without broadcast_task.abort(): the task keeps running
InboundEnd_no_abort(c) ==
    /\ pc[c] = "receiving"
    /\ pc' = [pc EXCEPT ![c] = "done"]
    /\ UNCHANGED <<out, subscribed_at, cursor, delivered, device_id, channel,
                   connected_clients, broadcast_rx>>
    /\ UNCHANGED outside_coordinator

\* receiver.next() yields None (the client closed) or Some(Err(_)) (transport
\* error): the receive loop ends and handle_socket aborts the broadcast
\* task, which is cancelled at the await it is suspended in and drops
\* broadcast_rx (a task that has already finished stays finished); the
\* session's halves of the socket are dropped
InboundEnd(c) ==
    /\ pc[c] = "receiving"
    /\ pc' = [pc EXCEPT ![c] = "done"]
    /\ out' = [out EXCEPT ![c] = "stopped"]
    /\ subscribed_at' = [subscribed_at EXCEPT ![c] = 0]
    /\ cursor' = [cursor EXCEPT ![c] = 0]
    /\ delivered' = [delivered EXCEPT ![c] = <<>>]
    /\ broadcast_rx' = [broadcast_rx EXCEPT ![c] = FALSE]
    /\ UNCHANGED <<device_id, channel, connected_clients>>
    /\ UNCHANGED outside_coordinator

\* Err(Lagged) handled by carrying on from the oldest retained message
OutboundLagged_resync(c) ==
    /\ out[c] = "running"
    /\ Overrun(c)
    /\ cursor' = [cursor EXCEPT ![c] = Len(channel) - ChannelCapacity]
    /\ UNCHANGED <<pc, out, subscribed_at, device_id, delivered, channel,
                   connected_clients, broadcast_rx>>
    /\ UNCHANGED outside_coordinator

\* the task finishing on Err(Lagged) with its broadcast_rx kept alive
OutboundLagged_leak(c) ==
    /\ out[c] = "running"
    /\ Overrun(c)
    /\ out' = [out EXCEPT ![c] = "lagged"]
    /\ subscribed_at' = [subscribed_at EXCEPT ![c] = 0]
    /\ cursor' = [cursor EXCEPT ![c] = 0]
    /\ UNCHANGED <<pc, device_id, delivered, channel, connected_clients, broadcast_rx>>
    /\ UNCHANGED outside_coordinator

\* broadcast task: broadcast_rx.recv() is Err(Lagged): the loop ends, the
\* task finishes and drops broadcast_rx
OutboundLagged(c) ==
    /\ out[c] = "running"
    /\ Overrun(c)
    /\ out' = [out EXCEPT ![c] = "lagged"]
    /\ subscribed_at' = [subscribed_at EXCEPT ![c] = 0]
    /\ cursor' = [cursor EXCEPT ![c] = 0]
    /\ broadcast_rx' = [broadcast_rx EXCEPT ![c] = FALSE]
    /\ UNCHANGED <<pc, device_id, delivered, channel, connected_clients>>
    /\ UNCHANGED outside_coordinator

\* the text frame the broadcast task writes for the message it received
forward(c) ==
    [idx |-> cursor[c] + 1, text |-> to_string(channel[cursor[c] + 1].msg)]

\* the forwarding step with the receiver left on the message it just sent
OutboundForward_again(c) ==
    /\ out[c] = "running"
    /\ ~Overrun(c)
    /\ cursor[c] < Len(channel)
    /\ Len(delivered[c]) < MaxMessages
    /\ delivered' = [delivered EXCEPT ![c] = Append(delivered[c], forward(c))]
    /\ UNCHANGED <<pc, out, subscribed_at, cursor, device_id, channel,
                   connected_clients, broadcast_rx>>
    /\ UNCHANGED outside_coordinator

\* the forwarding step with the frame written ahead of the earlier ones
OutboundForward_prepend(c) ==
    /\ out[c] = "running"
    /\ ~Overrun(c)
    /\ cursor[c] < Len(channel)
    /\ delivered' = [delivered EXCEPT ![c] = <<forward(c)>> \o delivered[c]]
    /\ cursor' = [cursor EXCEPT ![c] = cursor[c] + 1]
    /\ UNCHANGED <<pc, out, subscribed_at, device_id, channel, connected_clients,
                   broadcast_rx>>
    /\ UNCHANGED outside_coordinator

\* broadcast task: recv() is Ok(msg) and sender.send(Text(json)) is Ok
OutboundForward(c) ==
    /\ out[c] = "running"
    /\ ~Overrun(c)
    /\ cursor[c] < Len(channel)
    /\ delivered' = [delivered EXCEPT ![c] = Append(delivered[c], forward(c))]
    /\ cursor' = [cursor EXCEPT ![c] = cursor[c] + 1]
    /\ UNCHANGED <<pc, out, subscribed_at, device_id, channel, connected_clients, broadcast_rx>>
    /\ UNCHANGED outside_coordinator

\* the send error of one task ending the broadcast task of every session
OutboundSendErr_all(c) ==
    /\ out[c] = "running"
    /\ ~Overrun(c)
    /\ cursor[c] < Len(channel)
    /\ out' = [d \in Sessions |-> IF out[d] = "running" THEN "send_failed" ELSE out[d]]
    /\ subscribed_at' = [d \in Sessions |-> IF out[d] = "running" THEN 0 ELSE subscribed_at[d]]
    /\ cursor' = [d \in Sessions |-> IF out[d] = "running" THEN 0 ELSE cursor[d]]
    /\ broadcast_rx' = [d \in Sessions |-> IF out[d] = "running" THEN FALSE ELSE broadcast_rx[d]]
    /\ UNCHANGED <<pc, device_id, delivered, channel, connected_clients>>
    /\ UNCHANGED outside_coordinator

\* broadcast task: recv() is Ok(msg) and sender.send(..) is Err: the loop
\* breaks, the task finishes and drops broadcast_rx
OutboundSendErr(c) ==
    /\ out[c] = "running"
    /\ ~Overrun(c)
    /\ cursor[c] < Len(channel)
    /\ out' = [out EXCEPT ![c] = "send_failed"]
    /\ subscribed_at' = [subscribed_at EXCEPT ![c] = 0]
    /\ cursor' = [cursor EXCEPT ![c] = 0]
    /\ broadcast_rx' = [broadcast_rx EXCEPT ![c] = FALSE]
    /\ UNCHANGED <<pc, device_id, delivered, channel, connected_clients>>
    /\ UNCHANGED outside_coordinator

InitResolveIdle ==
    /\ local = AnEntity
    /\ remote = AnEntity
    /\ resolution = Pending
    /\ peer_resolution = Pending

\* the memory-synthesis, retention and start-up parts at rest
InitSynthesisIdle ==
    /\ InitRetentionIdle
    /\ InitStartupIdle
    /\ InitDetectIdle
    /\ InitSynthIdle

Init ==
    /\ InitCoordinator
    /\ InitResolveIdle
    /\ InitClockIdle
    /\ InitDecayIdle
    /\ InitSynthesisIdle

Next ==
    \E c \in Sessions :
        \/ Connect(c)
        \/ \E text \in TextFrames : InboundText(c, text)
        \/ InboundNonText(c)
        \/ InboundEnd(c)
        \/ OutboundLagged(c)
        \/ OutboundForward(c)
        \/ OutboundSendErr(c)

Spec == Init /\ [][Next]_vars

(***************************************************************************)
(* SpecResolve: a peer holds `local`, receives `remote` and resolves; the  *)
(* peer on the other side holds `remote`, receives `local` and resolves.   *)
(***************************************************************************)
InitResolve ==
    /\ local \in SyncEntity
    /\ remote \in SyncEntity
    /\ resolution = Pending
    /\ peer_resolution = Pending
    /\ InitCoordinator
    /\ InitClockIdle
    /\ InitDecayIdle
    /\ InitSynthesisIdle

Resolve ==
    /\ resolution = Pending
    /\ resolution' = resolve_conflict(local, remote)
    /\ UNCHANGED <<local, remote, peer_resolution>>
    /\ UNCHANGED outside_resolve

ResolveAtPeer ==
    /\ peer_resolution = Pending
    /\ peer_resolution' = resolve_conflict(remote, local)
    /\ UNCHANGED <<local, remote, resolution>>
    /\ UNCHANGED outside_resolve

NextResolve == Resolve \/ ResolveAtPeer

SpecResolve == InitResolve /\ [][NextResolve]_vars

(***************************************************************************)
(* SpecClock: any three clocks, compared or operated on.                   *)
(***************************************************************************)
InitClock ==
    /\ vc_self \in VectorClock
    /\ vc_other \in VectorClock
    /\ vc_third \in VectorClock
    /\ vc_prev = vc_self
    /\ vc_op = NoOp
    /\ vc_cmp = NotCompared
    /\ InitResolveIdle
    /\ InitCoordinator
    /\ InitDecayIdle
    /\ InitSynthesisIdle

NextClock ==
    \/ Compare
    \/ \E device \in Devices : Increment(device)
    \/ \E device \in Devices : IncrementPanics(device)
    \/ Merge

SpecClock == InitClock /\ [][NextClock]_vars

(***************************************************************************)
(* SpecDecay: decay passes over a table of psychology layers, one after    *)
(* the other, while the wall clock advances.                               *)
(***************************************************************************)
InitDecayEngine ==
    /\ InitDecay
    /\ InitResolveIdle
    /\ InitCoordinator
    /\ InitClockIdle
    /\ InitSynthesisIdle

NextDecay ==
    \/ Tick
    \/ Fetch
    \/ FetchFails
    \/ UpdateRow
    \/ UpdateRowFails
    \/ ReturnOk

SpecDecay == InitDecayEngine /\ [][NextDecay]_vars

\* the four parts above at rest
InitCoreIdle ==
    /\ InitCoordinator
    /\ InitResolveIdle
    /\ InitClockIdle
    /\ InitDecayIdle

(***************************************************************************)
(* SpecRetention: calculate_retention of the model of a layer, for every   *)
(* layer number, initial strength and duration of the bounded sets.        *)
(***************************************************************************)
InitRetentionSpec ==
    /\ InitRetention
    /\ InitStartupIdle
    /\ InitDetectIdle
    /\ InitSynthIdle
    /\ InitCoreIdle

NextRetention == Calculate

SpecRetention == InitRetentionSpec /\ [][NextRetention]_vars

(***************************************************************************)
(* SpecStartup: each of the core processes started in an environment that  *)
(* sets any subset of the three variables.                                 *)
(***************************************************************************)
InitStartupSpec ==
    /\ InitStartup
    /\ InitRetentionIdle
    /\ InitDetectIdle
    /\ InitSynthIdle
    /\ InitCoreIdle

NextStartup ==
    \/ StartClientFails
    \/ StartAndRunOnce
    \/ StartServing
    \/ StartScheduler
    \/ JobTick
    \/ CtrlC

SpecStartup == InitStartupSpec /\ [][NextStartup]_vars

(***************************************************************************)
(* SpecDetect: one detector applied to one slice of memories.              *)
(***************************************************************************)
InitDetectSpec ==
    /\ InitDetect
    /\ InitRetentionIdle
    /\ InitStartupIdle
    /\ InitSynthIdle
    /\ InitCoreIdle

NextDetect ==
    \/ DetectTemporal
    \/ DetectEmotional

SpecDetect == InitDetectSpec /\ [][NextDetect]_vars

(***************************************************************************)
(* SpecSynth: synthesize_patterns invoked up to MaxInvocations times for   *)
(* one user on an unchanged memories table.                                *)
(***************************************************************************)
InitSynthSpec ==
    /\ InitSynth
    /\ InitRetentionIdle
    /\ InitStartupIdle
    /\ InitDetectIdle
    /\ InitCoreIdle

NextSynth ==
    \/ SynthFetchFails
    \/ SynthNoMemories
    \/ SynthDetect
    \/ SynthFitFails
    \/ SkipPattern
    \/ InsertPattern
    \/ InsertPatternFails
    \/ SynthReturn

SpecSynth == InitSynthSpec /\ [][NextSynth]_vars

(***************************************************************************)
(* The causal relations of the data model, coordinate by coordinate.       *)
(***************************************************************************)
ClocksEqual(a, b) ==
    \A d \in Devices : get_or_zero(a, d) = get_or_zero(b, d)

Precedes(a, b) ==
    /\ \A d \in Devices : get_or_zero(a, d) <= get_or_zero(b, d)
    /\ \E d \in Devices : get_or_zero(a, d) < get_or_zero(b, d)

Concurrent(a, b) ==
    ~Precedes(a, b) /\ ~Precedes(b, a) /\ ~ClocksEqual(a, b)

Resolved == resolution # Pending

(***************************************************************************)
(* C1: when the clocks of local and remote are equal (missing keys read    *)
(* as 0), resolve_conflict returns NoConflict(local), whatever the two     *)
(* timestamps are.                                                         *)
(***************************************************************************)
C1_EqualClocksNoConflictLocal ==
    (Resolved /\ ClocksEqual(local.vector_clock, remote.vector_clock))
        => resolution = Ok("NoConflict", local)

(***************************************************************************)
(* C2: when one clock happens-before the other, resolve_conflict returns   *)
(* NoConflict carrying the causally later entity, whatever the timestamps. *)
(***************************************************************************)
C2_CausalOrderWins ==
    Resolved =>
        /\ Precedes(local.vector_clock, remote.vector_clock)
              => resolution = Ok("NoConflict", remote)
        /\ Precedes(remote.vector_clock, local.vector_clock)
              => resolution = Ok("NoConflict", local)

\* the older side carries the later timestamp and still loses
C2_Witness ==
    /\ Resolved
    /\ Precedes(local.vector_clock, remote.vector_clock)
    /\ local.last_modified > remote.last_modified
    /\ resolution = Ok("NoConflict", remote)

(***************************************************************************)
(* C3: when the clocks are concurrent (neither precedes, not equal),       *)
(* resolve_conflict returns LastWriteWins(local) if local.last_modified >  *)
(* remote.last_modified and LastWriteWins(remote) otherwise; equal         *)
(* timestamps resolve to remote.                                           *)
(***************************************************************************)
C3_ConcurrentLastWriteWins ==
    (Resolved /\ Concurrent(local.vector_clock, remote.vector_clock)) =>
        resolution = IF local.last_modified > remote.last_modified
                     THEN Ok("LastWriteWins", local)
                     ELSE Ok("LastWriteWins", remote)

\* concurrent clocks, equal timestamps, remote wins
C3_Witness ==
    /\ Resolved
    /\ Concurrent(local.vector_clock, remote.vector_clock)
    /\ local.last_modified = remote.last_modified
    /\ local # remote
    /\ resolution = Ok("LastWriteWins", remote)

(***************************************************************************)
(* C4: under concurrent clocks both peers select the same entity:          *)
(* resolve_conflict(X, Y) and resolve_conflict(Y, X) carry the same winner.*)
(***************************************************************************)
C4_PeersConverge ==
    (/\ resolution # Pending
     /\ peer_resolution # Pending
     /\ Concurrent(local.vector_clock, remote.vector_clock))
        => resolution.entity = peer_resolution.entity

(***************************************************************************)
(* C5: resolve_conflict is total: it returns Ok with one outcome, the      *)
(* outcome is NoConflict or LastWriteWins, and the entity it carries is    *)
(* local or remote with every field unmodified.                            *)
(***************************************************************************)
C5_Total ==
    Resolved =>
        /\ resolution.ok
        /\ resolution.variant \in {"NoConflict", "LastWriteWins"}
        /\ resolution.entity \in {local, remote}

\* a concurrent pair (the branch where a merge would apply) has been resolved
C5_Witness ==
    /\ Resolved
    /\ Concurrent(local.vector_clock, remote.vector_clock)
    /\ resolution.variant = "LastWriteWins"
    /\ resolution.entity.vector_clock = remote.vector_clock

(***************************************************************************)
(* Properties of the coordinator.                                          *)
(***************************************************************************)
\* the entries of delivered[d] that carry channel message i
Copies(d, i) == {k \in 1..Len(delivered[d]) : delivered[d][k].idx = i}

\* message i is a Delta that a session other than d sent while d was subscribed
DeltaFor(d, i) ==
    /\ i \in (subscribed_at[d] + 1)..Len(channel)
    /\ channel[i].from # d
    /\ channel[i].msg["type"] = "Delta"

\* parsing a well-formed frame keeps every field the client sent
ParsingKeepsFields ==
    \A text \in TextFrames :
        from_str(text).ok =>
            \A k \in DOMAIN from_str(text).msg : from_str(text).msg[k] = text[k]

C7_NoEchoToSender ==
    \A c \in Sessions : \A k \in 1..Len(delivered[c]) :
        channel[delivered[c][k].idx].from # c

(***************************************************************************)
(* C8: the key set of connected_clients equals the set of device           *)
(* identifiers of the sessions that are currently connected.               *)
(***************************************************************************)
C8_ClientMapTracksSessions ==
    connected_clients = {device_id[c] : c \in {s \in Sessions : pc[s] = "receiving"}}

(***************************************************************************)
(* C9: a client whose receiver has overrun the channel gets nothing more:  *)
(* the only step its outbound task can take is to terminate, and after     *)
(* that nothing is written to its socket; while its receive loop runs, a   *)
(* Delta it sends is still broadcast to the receivers that are alive.      *)
(***************************************************************************)
C9_OverrunState(c) ==
    /\ Overrun(c) => ENABLED OutboundLagged(c) /\ ~ENABLED OutboundForward(c)
    /\ (/\ out[c] = "lagged"
        /\ pc[c] = "receiving"
        /\ Receivers # {}
        /\ Len(channel) < MaxMessages)
          => ENABLED (/\ InboundText(c, DeltaText)
                      /\ channel' = Append(channel,
                                           [msg |-> from_str(DeltaText).msg, from |-> c]))

C9_OverrunStep(c) ==
    /\ Overrun(c) =>
          \/ out'[c] = "running" /\ cursor'[c] = cursor[c] /\ delivered'[c] = delivered[c]
          \/ out'[c] \in {"lagged", "stopped"}
    /\ out[c] = "lagged" =>
          /\ out'[c] \in {"lagged", "stopped"}
          /\ pc'[c] = "receiving" => delivered'[c] = delivered[c]

\* C9: in every state and on every step, for every session: an overrun
\* ends the outbound task only, and the session's inbound Deltas are still
\* broadcast
C9_OverrunEndsOutboundOnly ==
    /\ [](\A c \in Sessions : C9_OverrunState(c))
    /\ [][\A c \in Sessions : C9_OverrunStep(c)]_vars

\* c's outbound task ended on the overrun, c is still receiving, the last
\* message of the channel is c's and another client has received it
C9_Witness ==
    \E c \in Sessions : \E d \in Sessions \ {c} :
        /\ out[c] = "lagged"
        /\ pc[c] = "receiving"
        /\ Len(channel) = MaxMessages
        /\ channel[MaxMessages].from = c
        /\ out[d] = "running"
        /\ Copies(d, MaxMessages) # {}

(***************************************************************************)
(* C10 as stated: a session is Disconnected once its receive loop has      *)
(* ended or its outbound task ended on a send error or an overrun, and     *)
(* from then on no message of that connection is broadcast and none is     *)
(* sent to it.                                                             *)
(***************************************************************************)
Disconnected_AsClaimed(c) == pc[c] = "done" \/ out[c] \in {"lagged", "send_failed"}

BroadcastFrom(c) ==
    /\ Len(channel') = Len(channel) + 1
    /\ channel'[Len(channel')].from = c

SentTo(c) == Len(delivered'[c]) > Len(delivered[c])

Malformed == {text \in TextFrames : ~from_str(text).ok}

C11_MalformedRejectedVisibly ==
    \A c \in Sessions : \A text \in Malformed :
        /\ ~ENABLED (InboundText(c, text) /\ channel' # channel)
        /\ ~ENABLED (/\ InboundText(c, text)
                     /\ delivered'[c] = delivered[c]
                     /\ pc'[c] = pc[c])

(***************************************************************************)
(* C12: a Conflict frame that a client sent is never forwarded: every      *)
(* Conflict written to a client's socket was produced by the coordinator,  *)
(* not taken from a session's receive loop.                                *)
(***************************************************************************)
C12_ConflictServerOriginated ==
    \A d \in Sessions : \A k \in 1..Len(delivered[d]) :
        delivered[d][k].text["type"] = "Conflict"
            => channel[delivered[d][k].idx].from \notin Sessions

(***************************************************************************)
(* C13: a failure of one session terminates at most that session.  The     *)
(* step in which session c fails (its receive loop ends, or its outbound   *)
(* task ends on a send error or an overrun) changes nothing of any other   *)
(* session and nothing of the channel; the turn that handles a malformed   *)
(* frame of c changes nothing of another session either; and in every      *)
(* state, whatever has become of the other sessions, a session whose       *)
(* outbound task runs can take the next message it has not overrun, and a  *)
(* session whose receive loop runs has its Delta broadcast to the          *)
(* receivers that are alive.                                               *)
(***************************************************************************)
SessionOf(d) ==
    <<pc[d], out[d], subscribed_at[d], cursor[d], device_id[d], delivered[d]>>

FailureOf(c) ==
    \/ pc[c] = "receiving" /\ pc'[c] = "done"
    \/ out[c] = "running" /\ out'[c] \in {"lagged", "send_failed"}

C13_OthersServed(d) ==
    /\ (out[d] = "running" /\ cursor[d] < Len(channel) /\ ~Overrun(d))
          => ENABLED OutboundForward(d)
    /\ (pc[d] = "receiving" /\ Receivers # {} /\ Len(channel) < MaxMessages)
          => ENABLED (/\ InboundText(d, DeltaText)
                      /\ channel' = Append(channel,
                                           [msg |-> from_str(DeltaText).msg, from |-> d]))
    /\ \A text \in Malformed :
          ~ENABLED (/\ InboundText(d, text)
                    /\ \E e \in Sessions \ {d} : SessionOf(e)' # SessionOf(e))

C13_FailureIsolated ==
    /\ [](\A d \in Sessions : C13_OthersServed(d))
    /\ [][\A c \in Sessions :
            FailureOf(c) =>
                /\ channel' = channel
                /\ \A d \in Sessions \ {c} : SessionOf(d)' = SessionOf(d)]_vars

\* session c has ended, the outbound task of d runs and d has a message of
\* its own waiting that it can take
C13_Witness ==
    \E c \in Sessions : \E d \in Sessions \ {c} :
        /\ pc[c] = "done"
        /\ pc[d] = "receiving"
        /\ out[d] = "running"
        /\ cursor[d] < Len(channel)
        /\ ~Overrun(d)
        /\ channel[Len(channel)].from = d
        /\ ENABLED OutboundForward(d)

(***************************************************************************)
(* C14: A.happens_before(B) is true exactly when every counter of A is <=  *)
(* the counter of B and one is strictly less, a missing key read as 0; a   *)
(* key present with 0 behaves as an absent key.                            *)
(***************************************************************************)
\* the clock without its zero entries
NonZero(clock) ==
    [d \in {e \in DOMAIN clock : clock[e] > 0} |-> clock[d]]

C14_HappensBeforeIsStrictDominance ==
    vc_cmp.done =>
        /\ vc_cmp.ab = Precedes(vc_self, vc_other)
        /\ vc_cmp.ba = Precedes(vc_other, vc_self)
        /\ vc_cmp.ab = happens_before(NonZero(vc_self), NonZero(vc_other))

\* the only strict inequality is at a key that vc_self lacks, and vc_self
\* holds an explicit 0 at a key that vc_other lacks
C14_Witness ==
    /\ vc_cmp.done
    /\ vc_cmp.ab
    /\ \E d \in DOMAIN vc_self \ DOMAIN vc_other : vc_self[d] = 0
    /\ \E d \in DOMAIN vc_other \ DOMAIN vc_self : vc_other[d] > 0
    /\ \A d \in DOMAIN vc_self : vc_self[d] = get_or_zero(vc_other, d)

(***************************************************************************)
(* C15: happens_before is transitive, also over clocks that hold explicit  *)
(* zero counters for devices the others omit.                              *)
(***************************************************************************)
C15_Transitive ==
    (vc_cmp.done /\ vc_cmp.ab /\ vc_cmp.bc) => vc_cmp.ac

\* a chain A -> B -> C where A holds an explicit 0 for a device B omits
C15_Witness ==
    /\ vc_cmp.done
    /\ vc_cmp.ab
    /\ vc_cmp.bc
    /\ vc_cmp.ac
    /\ \E d \in DOMAIN vc_self \ DOMAIN vc_other : vc_self[d] = 0
    /\ \E d \in DOMAIN vc_third \ DOMAIN vc_self : TRUE

(***************************************************************************)
(* C16: happens_before is irreflexive: A.happens_before(A) is false for    *)
(* every clock A.                                                          *)
(***************************************************************************)
C16_Irreflexive ==
    vc_cmp.done => ~vc_cmp.aa

\* a clock with a counter above 0 and an explicit 0 compared with itself
C16_Witness ==
    /\ vc_cmp.done
    /\ ~vc_cmp.aa
    /\ \E d \in DOMAIN vc_self : vc_self[d] > 0
    /\ \E d \in DOMAIN vc_self : vc_self[d] = 0

(***************************************************************************)
(* C17: after A.merge(B) the counter of A at every device is the maximum   *)
(* of the old counter of A and the counter of B, missing entries read as   *)
(* 0; the merged clock dominates the old A and B coordinate by coordinate. *)
(***************************************************************************)
C17_MergeIsMaximum ==
    vc_op.op = "merge" =>
        \A d \in Devices :
            /\ get_or_zero(vc_self, d) =
                  max(get_or_zero(vc_prev, d), get_or_zero(vc_other, d))
            /\ get_or_zero(vc_self, d) >= get_or_zero(vc_prev, d)
            /\ get_or_zero(vc_self, d) >= get_or_zero(vc_other, d)

\* the merge kept a counter of the old clock and took one of the other,
\* one of them for a device the other side does not hold
C17_Witness ==
    /\ vc_op.op = "merge"
    /\ \E d \in Devices : get_or_zero(vc_prev, d) > get_or_zero(vc_other, d)
    /\ \E d \in Devices : get_or_zero(vc_prev, d) < get_or_zero(vc_other, d)
    /\ DOMAIN vc_prev # DOMAIN vc_other
    /\ vc_self # vc_prev

(***************************************************************************)
(* C18: no counter decreases under increment or merge, also at the top of  *)
(* the counter range; increment(d) completes, raises the counter of d by   *)
(* exactly 1 and leaves every other entry as it was.                       *)
(***************************************************************************)
C18_CountersNeverDecrease ==
    /\ vc_op.op # "panicked"
    /\ vc_op.op \in {"increment", "merge"} =>
          \A d \in Devices : get_or_zero(vc_self, d) >= get_or_zero(vc_prev, d)
    /\ vc_op.op = "increment" =>
          /\ vc_self[vc_op.device] = get_or_zero(vc_prev, vc_op.device) + 1
          /\ \A d \in DOMAIN vc_prev \ {vc_op.device} :
                d \in DOMAIN vc_self /\ vc_self[d] = vc_prev[d]
          /\ DOMAIN vc_self = DOMAIN vc_prev \cup {vc_op.device}

(***************************************************************************)
(* C19: a failure while updating one layer does not abort the pass: every  *)
(* row the pass fetched is still attempted and the pass returns Ok with    *)
(* the number of rows it updated.                                          *)
(***************************************************************************)
LastPass == passes[Len(passes)]

C19_LayerFailureDoesNotAbort ==
    (decay_pc = "idle" /\ passes # <<>> /\ LastPass.fetched) =>
        /\ attempted = RowIds
        /\ LastPass.ok
        /\ updated <= Cardinality(attempted)

(***************************************************************************)
(* C20: the decay engine is idempotent: when a second pass completes       *)
(* right after a completed pass, with no time elapsed in between, every    *)
(* layer's decay_rate equals the value the first pass wrote.               *)
(***************************************************************************)
C20_Idempotent ==
    (/\ decay_pc = "idle"
     /\ Len(passes) = 2
     /\ passes[1].ok
     /\ passes[2].ok
     /\ passes[2].at = passes[1].at)
        => \A r \in RowIds : psychology_layers[r].decay_rate = passes[1].decay_rate[r]


(***************************************************************************)
(* C21: every retention calculate_retention returns, which is the          *)
(* decay_rate the engine writes, lies in [0, 1]: for every layer number    *)
(* (1..7 and the others), every initial strength in [0, 1] and every       *)
(* duration, the negative ones of a last_updated in the future included.   *)
(***************************************************************************)
C21_RetentionInUnitInterval ==
    ret_value.done => (ret_value.v >= 0 /\ ret_value.v <= One)

\* the power law of layer 3 on a negative duration: the base 1 + t is
\* negative, powf gives NaN and the clamp turns it into 0
C21_Witness ==
    /\ ret_value.done
    /\ ret_layer = 3
    /\ ret_strength = One
    /\ num_hours(ret_duration) < -1
    /\ ret_value.v = 0

(***************************************************************************)
(* C22: at elapsed time 0 the retention equals the initial strength, for   *)
(* every layer number and every initial strength in [0, 1].                *)
(***************************************************************************)
C22_RetentionAtZeroIsStrength ==
    (ret_value.done /\ ret_duration = 0) => ret_value.v = ret_strength

\* a layer number without a model of its own and a strength that is neither
\* 0 nor 1
C22_Witness ==
    /\ ret_value.done
    /\ ret_duration = 0
    /\ ret_layer = 8
    /\ ret_strength = 250
    /\ ret_value.v = 250

(***************************************************************************)
(* C23: every core process started while one of the three variables is     *)
(* not set terminates with a non-zero status before doing any work.        *)
(***************************************************************************)
C23_MissingEnvIsFatal ==
    (env # EnvVars /\ main_pc # "start") =>
        /\ main_pc = "exited"
        /\ exit_code # 0
        /\ work_done = 0

(***************************************************************************)
(* C24: in one invocation of synthesize_patterns the rows inserted are     *)
(* exactly the candidate patterns whose confidence is at least             *)
(* min_confidence, in the order of the candidates; no row below the        *)
(* threshold is ever in the table; the count returned is the number of     *)
(* rows inserted, and it is 0 with no row when the user has no memories.   *)
(***************************************************************************)
\* the rows the current invocation inserted
ThisInvocation ==
    LET mine(row) == row.created_at = invocations
    IN  SelectSeq(memory_synthesis, mine)

\* the candidates of the current invocation at or above the threshold
Eligible ==
    LET passes_threshold(c) == c.pattern.confidence >= min_confidence
    IN  SelectSeq(candidates, passes_threshold)

\* row k of the invocation is candidate k of the eligible ones
RowIsCandidate(k) ==
    /\ ThisInvocation[k].memory_ids = Eligible[k].pattern.memory_ids
    /\ ThisInvocation[k].confidence_score = Eligible[k].pattern.confidence
    /\ ThisInvocation[k].synthesis_content = Eligible[k].pattern.synthesis
    /\ ThisInvocation[k].user_id = User

C24_ExactlyTheEligibleCandidates ==
    /\ \A k \in DOMAIN memory_synthesis :
          memory_synthesis[k].confidence_score >= min_confidence
    /\ synth_result.kind = "Ok" =>
          /\ synth_result.count = Len(ThisInvocation)
          /\ Len(ThisInvocation) = Len(Eligible)
          /\ \A k \in 1..Len(Eligible) : RowIsCandidate(k)
          /\ (\A k \in DOMAIN memories : memories[k].user_id # User) =>
                (synth_result.count = 0 /\ ThisInvocation = <<>>)

\* an invocation returned a count of at least 1 after skipping a candidate
C24_Witness ==
    /\ synth_result.kind = "Ok"
    /\ synth_result.count >= 1
    /\ Len(candidates) > synth_result.count
    /\ \E k \in DOMAIN ThisInvocation :
          ThisInvocation[k].confidence_score = min_confidence

(***************************************************************************)
(* C25: no temporal_cluster the detector emits contains two memories that  *)
(* follow each other in the fetched order and whose creation times differ  *)
(* by more than 24 hours.                                                  *)
(***************************************************************************)
C25_NoGapInsideCluster ==
    det_patterns.by = "temporal" =>
        \A k \in DOMAIN det_patterns.patterns :
            LET members == det_patterns.patterns[k].memory_ids
            IN  \A j \in 1..(Len(members) - 1) :
                    abs(det_memories[members[j]].created_at
                          - det_memories[members[j + 1]].created_at)
                        <= 24 * TicksPerHour

(***************************************************************************)
(* C26: emotional_positive is emitted exactly when at least 5 of the       *)
(* memories have a valence above 0.3, emotional_negative exactly when at   *)
(* least 5 have a valence below -0.3; each lists exactly the memories of   *)
(* its bin, once each, with confidence 0.85; a memory with a valence in    *)
(* [-0.3, 0.3] or without valence is in no pattern.                        *)
(***************************************************************************)
PositiveBin ==
    {det_memories[i].id : i \in {j \in DOMAIN det_memories :
        /\ det_memories[j].emotional_valence.some
        /\ det_memories[j].emotional_valence.v > 300}}

NegativeBin ==
    {det_memories[i].id : i \in {j \in DOMAIN det_memories :
        /\ det_memories[j].emotional_valence.some
        /\ det_memories[j].emotional_valence.v < -300}}

Emitted(pattern_type) ==
    {k \in DOMAIN det_patterns.patterns :
        det_patterns.patterns[k].pattern_type = pattern_type}

ListsExactly(k, bin) ==
    LET members == det_patterns.patterns[k].memory_ids
    IN  /\ {members[j] : j \in DOMAIN members} = bin
        /\ Len(members) = Cardinality(bin)
        /\ det_patterns.patterns[k].confidence = 850

C26_EmotionalGating ==
    det_patterns.by = "emotional" =>
        /\ \A k \in DOMAIN det_patterns.patterns :
              det_patterns.patterns[k].pattern_type
                  \in {"emotional_positive", "emotional_negative"}
        /\ Cardinality(Emitted("emotional_positive")) =
              (IF Cardinality(PositiveBin) >= 5 THEN 1 ELSE 0)
        /\ Cardinality(Emitted("emotional_negative")) =
              (IF Cardinality(NegativeBin) >= 5 THEN 1 ELSE 0)
        /\ \A k \in Emitted("emotional_positive") : ListsExactly(k, PositiveBin)
        /\ \A k \in Emitted("emotional_negative") : ListsExactly(k, NegativeBin)

\* emotional_positive is emitted for five memories while a sixth has a
\* valence of exactly 0.3
C26_Witness ==
    /\ det_patterns.by = "emotional"
    /\ Emitted("emotional_positive") # {}
    /\ \E i \in DOMAIN det_memories : det_memories[i].emotional_valence = Some(300)

(***************************************************************************)
(* C27: the pattern_type of a persisted row is temporal_temporal_cluster   *)
(* for a temporal pattern, semantic_semantic_cluster for a semantic        *)
(* pattern, and emotional_positive or emotional_negative for an emotional  *)
(* pattern.                                                                *)
(***************************************************************************)
C27_PatternKinds ==
    \A k \in DOMAIN memory_synthesis :
        memory_synthesis[k].pattern_type \in
            {"temporal_temporal_cluster", "semantic_semantic_cluster",
             "emotional_positive", "emotional_negative"}

(***************************************************************************)
(* C28: when an insert fails, the invocation returns an error that keeps   *)
(* the cause, no further insert is attempted in it, and the rows it        *)
(* inserted before the failure remain in the table.                        *)
(***************************************************************************)
InsertFailed ==
    /\ synth_result.kind = "Err"
    /\ Head(synth_result.cause) = "Failed to write synthesis to Supabase"

C28_InsertFailureAborts ==
    InsertFailed =>
        /\ synth_result.cause[Len(synth_result.cause)] = "sqlx::Error"
        /\ synth_pc = "returned"
        /\ to_write # <<>>
        /\ ~ENABLED InsertPattern
        /\ ~ENABLED InsertPatternFails
        /\ Len(ThisInvocation) = count
        /\ count < Len(Eligible)
        /\ \A k \in 1..count : RowIsCandidate(k)

\* the insert of the second of three patterns failed: one row of an earlier
\* family is in the table, a later family was not attempted
C28_Witness ==
    /\ InsertFailed
    /\ count >= 1
    /\ Len(ThisInvocation) >= 1
    /\ Len(to_write) >= 2
    /\ Head(to_write).category # candidates[1].category

(***************************************************************************)
(* C29: synthesize_patterns only appends: no step changes the memories     *)
(* table or a row that is in memory_synthesis, and a row it adds has an id *)
(* no earlier row has; a second run on the same memories adds its rows     *)
(* again.                                                                  *)
(***************************************************************************)
C29_AppendOnly ==
    [][/\ memories' = memories
       /\ Len(memory_synthesis') >= Len(memory_synthesis)
       /\ SubSeq(memory_synthesis', 1, Len(memory_synthesis)) = memory_synthesis
       /\ \A k \in (Len(memory_synthesis) + 1)..Len(memory_synthesis') :
             \A j \in DOMAIN memory_synthesis :
                 memory_synthesis'[k].id # memory_synthesis[j].id]_vars

\* two invocations each inserted a row for the same pattern
C29_Witness ==
    \E j, k \in DOMAIN memory_synthesis :
        /\ j < k
        /\ memory_synthesis[j].pattern_type = memory_synthesis[k].pattern_type
        /\ memory_synthesis[j].memory_ids = memory_synthesis[k].memory_ids
        /\ memory_synthesis[j].id # memory_synthesis[k].id
        /\ memory_synthesis[j].created_at < memory_synthesis[k].created_at

(***************************************************************************)
(* C30: for a user whose memories all carry an embedding and a positive    *)
(* valence, synthesize_patterns with min_confidence 0.5 that returns Ok    *)
(* has persisted at least one pattern and returns a count above 0.         *)
(***************************************************************************)
UserMemories ==
    {memories[k] : k \in {j \in DOMAIN memories : memories[j].user_id = User}}

C30_EmbeddedPositiveMemoriesGivePattern ==
    (/\ synth_result.kind = "Ok"
     /\ min_confidence = 500
     /\ UserMemories # {}
     /\ \A m \in UserMemories :
           /\ m.embedding
           /\ m.emotional_valence.some
           /\ m.emotional_valence.v > 0)
        => /\ synth_result.count > 0
           /\ ThisInvocation # <<>>


(***************************************************************************)
(* C31: walking the memories in order, a temporal_cluster is emitted       *)
(* exactly for each rolling group that is closed by a following gap of     *)
(* more than 24 hours and holds at least 3 memories; the group still open  *)
(* when the input ends is never emitted.                                   *)
(***************************************************************************)
\* the positions followed by a gap of more than 24 hours
GapsOver24h ==
    {i \in 1..(Len(det_memories) - 1) :
        abs(det_memories[i].created_at - det_memories[i + 1].created_at)
            > 24 * TicksPerHour}

\* first and last position of every rolling group that such a gap closes
ClosedGroups ==
    {g \in (1..Len(det_memories)) \X (1..Len(det_memories)) :
        /\ g[1] <= g[2]
        /\ g[2] \in GapsOver24h
        /\ g[1] = 1 \/ (g[1] - 1) \in GapsOver24h
        /\ \A i \in g[1]..(g[2] - 1) : i \notin GapsOver24h}

\* the memory ids of the closed groups of at least 3 memories
ExpectedClusters ==
    {[k \in 1..(g[2] - g[1] + 1) |-> det_memories[g[1] + k - 1].id] :
        g \in {h \in ClosedGroups : h[2] - h[1] + 1 >= 3}}

C31_ClusterPerClosedGroup ==
    det_patterns.by = "temporal" =>
        /\ {det_patterns.patterns[k].memory_ids : k \in DOMAIN det_patterns.patterns}
              = ExpectedClusters
        /\ Len(det_patterns.patterns) = Cardinality(ExpectedClusters)
        /\ \A k \in DOMAIN det_patterns.patterns :
              det_patterns.patterns[k].pattern_type = "temporal_cluster"


(***************************************************************************)
(* C32: within one invocation of synthesize_patterns every temporal insert *)
(* is issued before any semantic insert, and every semantic insert before  *)
(* any emotional insert.                                                   *)
(***************************************************************************)
\* 1, 2, 3 for the temporal, semantic and emotional family
CategoryRank(category) ==
    CASE category = "temporal" -> 1
      [] category = "semantic" -> 2
      [] category = "emotional" -> 3

\* the family of a row, from the pattern_type write_patterns gave it
RowRank(row) ==
    CASE row.pattern_type = "temporal_temporal_cluster" -> 1
      [] row.pattern_type = "semantic_semantic_cluster" -> 2
      [] row.pattern_type \in {"emotional_emotional_positive",
                               "emotional_emotional_negative"} -> 3

\* the rows invocation number i inserted
RowsOf(i) ==
    LET written_by_i(row) == row.created_at = i
    IN  SelectSeq(memory_synthesis, written_by_i)

C32_FamilyOrder ==
    /\ \A i \in 1..invocations :
          LET written == RowsOf(i)
          IN  \A k \in 2..Len(written) :
                  \A j \in 1..(k - 1) : RowRank(written[j]) <= RowRank(written[k])
    /\ synth_pc = "writing" =>
          \A j \in DOMAIN to_write :
              /\ \A k \in DOMAIN ThisInvocation :
                    RowRank(ThisInvocation[k]) <= CategoryRank(to_write[j].category)
              /\ \A k \in DOMAIN to_write :
                    j < k => CategoryRank(to_write[j].category)
                                <= CategoryRank(to_write[k].category)

\* one invocation inserted a row of each family
C32_Witness ==
    /\ Len(ThisInvocation) = 3
    /\ RowRank(ThisInvocation[1]) = 1
    /\ RowRank(ThisInvocation[2]) = 2
    /\ RowRank(ThisInvocation[3]) = 3

(***************************************************************************)
(* C33: the memory_ids of every persisted pattern hold no identifier       *)
(* twice, and only identifiers of the `limit` most recent memories of the  *)
(* user the invocation is for.                                             *)
(***************************************************************************)
\* the ids of the `limit` most recent memories of the user
MostRecentIds ==
    {m.id : m \in {u \in UserMemories :
        Cardinality({o \in UserMemories : o.created_at > u.created_at}) < limit}}

C33_MemoryIdsUniqueAndFetched ==
    memory_synthesis # <<>> =>
        LET recent == MostRecentIds
        IN  \A k \in DOMAIN memory_synthesis :
                LET members == memory_synthesis[k].memory_ids
                IN  /\ \A i, j \in DOMAIN members : i < j => members[i] # members[j]
                    /\ \A i \in DOMAIN members : members[i] \in recent

\* a pattern is persisted for a user who has more memories than the limit
\* and whose table holds a memory of another user
C33_Witness ==
    /\ memory_synthesis # <<>>
    /\ Cardinality(UserMemories) > limit
    /\ \E k \in DOMAIN memories : memories[k].user_id # User

(***************************************************************************)
(* C40: the three detectors complete before the first insert: when a       *)
(* detector fails, the invocation returns its error and has written no     *)
(* row, also when an earlier family had candidates.                        *)
(***************************************************************************)
DetectionFailed ==
    /\ synth_result.kind = "Err"
    /\ synth_result.cause = <<"KMeans fit error">>

\* the candidates of a family, as the invocation holds them
CandidatesOf(category) ==
    LET of_category(c) == c.category = category
    IN  SelectSeq(candidates, of_category)

C40_DetectionBeforeInsert ==
    /\ DetectionFailed =>
          /\ ThisInvocation = <<>>
          /\ synth_pc = "returned"
          /\ ~ENABLED InsertPattern
    /\ ThisInvocation # <<>> =>
          /\ CandidatesOf("temporal") =
                tagged("temporal", detect_temporal_patterns(fetched_memories))
          /\ CandidatesOf("emotional") =
                tagged("emotional", detect_emotional_patterns(fetched_memories))

\* the fit failed for memories that give a temporal pattern at or above
\* the threshold
C40_Witness ==
    /\ DetectionFailed
    /\ detect_temporal_patterns(fetched_memories) # <<>>
    /\ min_confidence <= 800


(***************************************************************************)
(* C34: when a device merges the clock of a received Delta into its own    *)
(* clock and then increments its own entry, the received clock happens     *)
(* before the new clock, and a peer whose local copy carries the received  *)
(* clock resolves the device's next Delta to NoConflict(remote).           *)
(***************************************************************************)
\* an entity that carries a clock and a modification time
EntityAt(clock, device, last_modified) ==
    [AnEntity EXCEPT !.vector_clock = clock, !.device_id = device,
                     !.last_modified = last_modified]

C34_MergeThenIncrementIsNewer ==
    [][(vc_op.op = "merge" /\ vc_op'.op = "increment") =>
          /\ happens_before(vc_other, vc_self')
          /\ \A tl, tr \in 0..MaxTime, d \in Devices :
                resolve_conflict(EntityAt(vc_other, d, tl),
                                 EntityAt(vc_self', vc_op'.device, tr))
                    = Ok("NoConflict", EntityAt(vc_self', vc_op'.device, tr))]_vars


(***************************************************************************)
(* C35: the subscription of a session is released when its broadcast task  *)
(* ends (overrun, send error, abort at the end of the session): in every   *)
(* state the live subscriptions are at most as many as the sessions whose  *)
(* broadcast task is running.                                              *)
(***************************************************************************)
C35_NoLeakedSubscription ==
    /\ Cardinality({c \in Sessions : broadcast_rx[c]})
          <= Cardinality({c \in Sessions : out[c] = "running"})
    /\ \A c \in Sessions : broadcast_rx[c] => out[c] = "running"

\* the task of one session ended on an overrun and its subscription is
\* gone, while another session is still subscribed
C35_Witness ==
    \E c, d \in Sessions :
        /\ out[c] = "lagged"
        /\ ~broadcast_rx[c]
        /\ broadcast_rx[d]
        /\ out[d] = "running"

C37_LastUpdatedNeverDecreases ==
    [][\A r \in RowIds :
          psychology_layers'[r].last_updated >= psychology_layers[r].last_updated]_vars

(***************************************************************************)
(* C39: the decay_rate a pass writes for a row depends only on the row's   *)
(* layer_number and on the whole hours, truncated toward zero, between the *)
(* stored last_updated and now; the decay_rate stored before is no input,  *)
(* so a pass less than one hour after the last update writes exactly 1.0.  *)
(***************************************************************************)
\* the retention of a layer after a number of whole hours, from strength 1
RetentionAfterHours(layer_number, hours) ==
    calculate_retention(get_model_for_layer(layer_number), hours * TicksPerHour, One)

\* the whole hours between a row's stored last_updated and now
WholeHours(r) ==
    LET d == now - psychology_layers[r].last_updated
    IN  IF d >= 0 THEN d \div TicksPerHour ELSE -((-d) \div TicksPerHour)

C39_DecayRateFromLayerAndWholeHours ==
    [][\A r \in RowIds :
          psychology_layers'[r] # psychology_layers[r] =>
              /\ psychology_layers'[r].decay_rate =
                    RetentionAfterHours(psychology_layers[r].layer_number, WholeHours(r))
              /\ WholeHours(r) = 0 => psychology_layers'[r].decay_rate = One]_vars

\* a row that held a decay_rate below 1.0 after one pass holds exactly 1.0
\* after the next pass, which ran less than an hour later
C39_Witness ==
    \E r \in RowIds :
        /\ decay_pc = "idle"
        /\ Len(passes) = 2
        /\ passes[1].ok
        /\ passes[2].ok
        /\ passes[1].decay_rate[r] < One
        /\ passes[2].decay_rate[r] = One
        /\ passes[2].at > passes[1].at
        /\ passes[2].at - passes[1].at < TicksPerHour

=============================================================================
